---- MODULE Spec2Model ----
(***************************************************************************)
(* psc-portmapper: the PortmapReconciler of internal/controller.           *)
(* One Reconcile pass is a sequence of blocking remote calls; every remote *)
(* call is one action, so that the order of the calls, the point where a   *)
(* pass aborts and the result it returns can be checked.                   *)
(***************************************************************************)
EXTENDS Integers, Sequences, FiniteSets, TLC

(***************************************************************************)
(* Bounds of the model and program constants.                              *)
(***************************************************************************)
\* longest pod listing the model draws
MaxPods == 2
\* number of changes the environment makes to the workload's pods/annotation
MaxChanges == 1
\* longest consumer_accept_list and longest nat_subnet_fqns given to validateSpec
MaxConsumers == 2
MaxSubnets == 2
\* longest list of port mappings given to getObsoletePortMappings
MaxMappings == 2
MaxRulePorts == 2
\* 1 * time.Minute, in seconds
RequeueDelay == 60

(***************************************************************************)
(* Errors.  An error value is the sequence of its message layers, outermost *)
(* first: fmt.Errorf("ctx: %w", err) prepends a layer, errors.Is looks      *)
(* through the layers for the sentinel.                                    *)
(***************************************************************************)
NoErr == <<>>
ErrNotFound == <<"not found (status 404)">>
\* what a failing remote call returns besides ErrNotFound: an opaque cause
RemoteErrs == {<<"remote failure">>}

Wrap(ctx, err) == ctx \o err

RECURSIVE ErrorsIs(_, _)
ErrorsIs(err, target) ==
    IF err = NoErr THEN FALSE
    ELSE IF err = target THEN TRUE
    ELSE ErrorsIs(Tail(err), target)

(***************************************************************************)
(* Strings that the code parses are modelled by their "/"-separated         *)
(* segments; decimal strings by their digits.                              *)
(***************************************************************************)
RECURSIVE Itoa(_)
Itoa(n) == IF n < 10 THEN <<n>> ELSE Append(Itoa(n \div 10), n % 10)

RECURSIVE StrLess(_, _)
StrLess(a, b) ==
    IF b = <<>> THEN FALSE
    ELSE IF a = <<>> THEN TRUE
    ELSE IF Head(a) # Head(b) THEN Head(a) < Head(b)
    ELSE StrLess(Tail(a), Tail(b))

RECURSIVE SortStr(_)
SortStr(S) ==
    IF S = {} THEN <<>>
    ELSE LET m == CHOOSE x \in S : \A y \in S \ {x} : StrLess(x, y)
         IN  <<m>> \o SortStr(S \ {m})

toSortedStr(is) == SortStr({Itoa(p) : p \in is})

RECURSIVE SetToSeq(_)
SetToSeq(S) ==
    IF S = {} THEN <<>>
    ELSE LET x == CHOOSE x \in S : TRUE IN <<x>> \o SetToSeq(S \ {x})

Range(s) == {s[i] : i \in 1..Len(s)}

networkFQNRegexp(s) ==
    /\ Len(s) = 5
    /\ s[1] = "projects" /\ s[3] = "global" /\ s[4] = "networks"
    /\ s[2] # "" /\ s[5] # ""

subnetFQNRegexp(s) ==
    /\ Len(s) = 6
    /\ s[1] = "projects" /\ s[3] = "regions" /\ s[5] = "subnetworks"
    /\ s[2] # "" /\ s[4] # "" /\ s[6] # ""

\* ^gce://([^/]+)/([^/]+)/([^/]+)$ on [scheme |-> .., segs |-> ..]
providerIDRegexp(id) ==
    /\ id.scheme = "gce"
    /\ Len(id.segs) = 3
    /\ \A i \in 1..3 : id.segs[i] # ""

fqInstaceName(nodeProviderID) ==
    IF ~providerIDRegexp(nodeProviderID)
    THEN [val |-> <<>>, err |-> <<"invalid provider ID format">>]
    ELSE [val |-> <<"projects", nodeProviderID.segs[1], "zones", nodeProviderID.segs[2],
                    "instances", nodeProviderID.segs[3]>>,
          err |-> NoErr]

(***************************************************************************)
(* The Spec carried by the annotation, and its validation.                 *)
(***************************************************************************)
GoodSubnet == <<"projects", "p", "regions", "r", "subnetworks", "s">>
BadSubnet == <<"s">>
GoodNetwork == <<"projects", "p", "global", "networks", "n">>
BadNetwork == <<"net">>

PortA == [NodePort |-> 30000, ContainerPort |-> 8080, StartingPort |-> 31000]
PortB == [NodePort |-> 30001, ContainerPort |-> 8081, StartingPort |-> 32000]
\* a named port whose external ports start one above those of PortA
PortC == [NodePort |-> 30002, ContainerPort |-> 8082, StartingPort |-> 31001]

ZeroSpec ==
    [Prefix |-> "", ConsumerAcceptList |-> <<>>, NatSubnetFQNs |-> <<>>,
     NodePorts |-> <<>>]

\* NodePorts is a Go map name -> PortConfig; here the sequence of its
\* entries in the order one range over the map visits them.
SpecOnePort ==
    [Prefix |-> "prefix-", ConsumerAcceptList |-> <<>>,
     NatSubnetFQNs |-> <<GoodSubnet>>, NodePorts |-> <<PortA>>]
SpecTwoPorts ==
    [Prefix |-> "prefix-",
     ConsumerAcceptList |->
        <<[NetworkFQN |-> <<GoodNetwork>>, ProjectIdOrNum |-> <<>>, ConnectionLimit |-> 1]>>,
     NatSubnetFQNs |-> <<GoodSubnet>>, NodePorts |-> <<PortA, PortB>>]
\* two named ports whose runs of external ports overlap from the second replica on
SpecOverlap ==
    [Prefix |-> "prefix-", ConsumerAcceptList |-> <<>>,
     NatSubnetFQNs |-> <<GoodSubnet>>, NodePorts |-> <<PortA, PortC>>]
SpecNoPorts ==
    [Prefix |-> "prefix-", ConsumerAcceptList |-> <<>>,
     NatSubnetFQNs |-> <<GoodSubnet>>, NodePorts |-> <<>>]
SpecInvalid ==
    [Prefix |-> "prefix-",
     ConsumerAcceptList |->
        <<[NetworkFQN |-> <<BadNetwork>>, ProjectIdOrNum |-> <<>>, ConnectionLimit |-> 0]>>,
     NatSubnetFQNs |-> <<>>, NodePorts |-> <<PortA>>]

\* an annotation value: does json.Unmarshal accept it, and the Spec it yields
Annotations ==
    { [decodes |-> TRUE, spec |-> SpecOnePort],
      [decodes |-> TRUE, spec |-> SpecTwoPorts],
      [decodes |-> TRUE, spec |-> SpecNoPorts],
      [decodes |-> TRUE, spec |-> SpecOverlap],
      [decodes |-> TRUE, spec |-> SpecInvalid],
      [decodes |-> FALSE, spec |-> ZeroSpec] }

\* checks that want both identifiers on every consumer entry
ConsumerErrs_needsBoth(c, i) ==
    IF c.NetworkFQN = <<>> \/ c.ProjectIdOrNum = <<>>
    THEN <<<<"either network_fqn or project_id_or_num must be set", i>>>> ELSE <<>>

\* checks that reject a connection limit of zero
ConsumerErrs_limitRequired(c, i) ==
    IF c.ConnectionLimit = 0 THEN <<<<"connection_limit is not set", i>>>> ELSE <<>>

ConsumerErrs(c, i) ==
    (IF c.NetworkFQN = <<>> /\ c.ProjectIdOrNum = <<>>
        THEN <<<<"either network_fqn or project_id_or_num must be set", i>>>> ELSE <<>>)
    \o (IF c.NetworkFQN # <<>> /\ c.ProjectIdOrNum # <<>>
        THEN <<<<"network_fqn and project_id_or_num can't both be set", i>>>> ELSE <<>>)
    \o (IF c.NetworkFQN # <<>> /\ ~networkFQNRegexp(c.NetworkFQN[1])
        THEN <<<<"invalid value for network_fqn", i, c.NetworkFQN[1]>>>> ELSE <<>>)

RECURSIVE ConsumerListErrs(_, _)
ConsumerListErrs(cs, i) ==
    IF i > Len(cs) THEN <<>>
    ELSE ConsumerErrs(cs[i], i - 1) \o ConsumerListErrs(cs, i + 1)

RECURSIVE SubnetListErrs(_, _)
SubnetListErrs(sns, i) ==
    IF i > Len(sns) THEN <<>>
    ELSE (IF ~subnetFQNRegexp(sns[i])
          THEN <<<<"invalid value for nat_subnet_fqns", i - 1, sns[i]>>>> ELSE <<>>)
         \o SubnetListErrs(sns, i + 1)

\* a validation that accepts every spec
validateSpec_lenient(spec) == <<>>

\* the multierr: the sequence of the violations, in discovery order
validateSpec(spec) ==
    ConsumerListErrs(spec.ConsumerAcceptList, 1)
    \o (IF Len(spec.NatSubnetFQNs) = 0 THEN <<<<"nat_subnet_fqns is empty">>>> ELSE <<>>)
    \o SubnetListErrs(spec.NatSubnetFQNs, 1)


\* the error Reconcile returns for an invalid spec: one layer per violation
ValidationErr(spec) ==
    LET v == validateSpec(spec) IN [i \in 1..Len(v) |-> v[i][1]]

DecodeErr == <<"json: cannot unmarshal">>

\* spec.ConsumerAcceptList is a []*Consumer: p carries each entry as <<>> (a nil
\* pointer, what a JSON null decodes to) or <<consumer>>.  The loop of validateSpec
\* reads c.NetworkFQN of every entry: a nil entry panics.
validateSpecCall(p) ==
    IF \E i \in DOMAIN p.ConsumerAcceptList : p.ConsumerAcceptList[i] = <<>>
    THEN [panic |-> TRUE, err |-> <<>>]
    ELSE [panic |-> FALSE,
          err |-> validateSpec([p EXCEPT !.ConsumerAcceptList =
                                   [i \in DOMAIN @ |-> @[i][1]]])]

\* a parse that reports a decode failure as an invalid spec
parseSpec_oneError(a) ==
    IF ~a.decodes
    THEN [spec |-> <<>>, err |-> Wrap(<<"invalid spec">>, DecodeErr), panic |-> FALSE]
    ELSE LET v == validateSpecCall(a.spec) IN
         IF v.panic THEN [spec |-> <<>>, err |-> NoErr, panic |-> TRUE]
         ELSE IF v.err # <<>>
         THEN [spec |-> <<>>, panic |-> FALSE,
               err |-> Wrap(<<"invalid spec">>, [i \in DOMAIN v.err |-> v.err[i][1]])]
         ELSE [spec |-> <<a.spec>>, err |-> NoErr, panic |-> FALSE]

\* parseSpec: a is what json.Unmarshal makes of the payload; the result is the
\* pair (*Spec, error), the spec <<>> when nil
parseSpec(a) ==
    IF ~a.decodes
    THEN [spec |-> <<>>, panic |-> FALSE,
          err |-> Wrap(<<"couldn't decode the spec from JSON">>, DecodeErr)]
    ELSE LET v == validateSpecCall(a.spec) IN
         IF v.panic THEN [spec |-> <<>>, err |-> NoErr, panic |-> TRUE]
         ELSE IF v.err # <<>>
         THEN [spec |-> <<>>, panic |-> FALSE,
               err |-> Wrap(<<"invalid spec">>, [i \in DOMAIN v.err |-> v.err[i][1]])]
         ELSE [spec |-> <<a.spec>>, err |-> NoErr, panic |-> FALSE]

(***************************************************************************)
(* Names, nodes and pods.                                                  *)
(***************************************************************************)
\* a list that reconciles the backend before the NEG it refers to
reconcilers_backendFirst ==
    <<"firewall", "backend", "NEG", "endpoints", "forwarding rule", "service attachment">>

\* a list that reconciles the forwarding rule before the backend it refers to
reconcilers_ruleFirst ==
    <<"firewall", "NEG", "forwarding rule", "backend", "endpoints", "service attachment">>

\* the resource names of the reconcilers list, in the order of the list
reconcilers ==
    <<"firewall", "NEG", "backend", "endpoints", "forwarding rule", "service attachment">>

\* a list that deletes the NEG before the backend that refers to it
deleters_negFirst ==
    <<"service attachment", "forwarding rule", "NEG", "backend", "firewall">>

\* the resource names of the deleters list, in the order of the list
deleters ==
    <<"service attachment", "forwarding rule", "backend", "NEG", "firewall">>

CloudRes == {"firewall", "NEG", "backend", "forwarding rule", "service attachment"}

\* the cluster's nodes: n0 and n1 carry well-formed provider IDs, nx does not
Nodes ==
    [n0 |-> [ProviderID |-> [scheme |-> "gce", segs |-> <<"p", "z", "n0">>]],
     n1 |-> [ProviderID |-> [scheme |-> "gce", segs |-> <<"p", "z", "n1">>]],
     nx |-> [ProviderID |-> [scheme |-> "aws", segs |-> <<"z", "nx">>]]]

\* the namespaces of the cluster
Namespaces == {"ns1", "ns2"}

\* Spec.NodeName of a pod; "" is an unscheduled pod
NodeNames == {"", "n0", "n1", "nx"}

RECURSIVE SeqsUpTo(_, _)
SeqsUpTo(S, n) ==
    IF n = 0 THEN {<<>>}
    ELSE LET shorter == SeqsUpTo(S, n - 1)
         IN  shorter \cup {Append(s, x) : s \in {t \in shorter : Len(t) = n - 1}, x \in S}

PodLists == SeqsUpTo(NodeNames, MaxPods)

Scheduled(ps) == {i \in 1..Len(ps) : ps[i] # ""}

(***************************************************************************)
(* Pure functions of the controller.                                       *)
(***************************************************************************)
RECURSIVE portMappingsFrom(_, _, _, _, _, _)
portMappingsFrom(spec, nodes, ps, i, j, acc) ==
    IF i > Len(ps) THEN [val |-> acc, err |-> NoErr, panic |-> FALSE]
    ELSE IF j > Len(spec.NodePorts) THEN portMappingsFrom(spec, nodes, ps, i + 1, 1, acc)
    ELSE IF ps[i] \notin nodes
         \* nodes[nodeName] is nil: node.Spec.ProviderID dereferences it
         THEN [val |-> <<>>, err |-> NoErr, panic |-> TRUE]
    ELSE LET instance == fqInstaceName(Nodes[ps[i]].ProviderID)
             p == spec.NodePorts[j]
         IN  IF instance.err # NoErr
             THEN [val |-> <<>>, err |-> instance.err, panic |-> FALSE]
             ELSE portMappingsFrom(spec, nodes, ps, i, j + 1,
                      Append(acc, [Port |-> p.StartingPort + (i - 1),
                                   Instance |-> instance.val,
                                   InstancePort |-> p.NodePort]))

\* a computation that gives every replica the starting port, without the offset
getPortMappings_noOffset(spec, nodes, ps) ==
    LET r == portMappingsFrom(spec, nodes, ps, 1, 1, <<>>) IN
    [r EXCEPT !.val = [k \in DOMAIN r.val |->
                          [r.val[k] EXCEPT !.Port = @ - ((k - 1) \div Len(spec.NodePorts))]]]

getPortMappings(spec, nodes, ps) == portMappingsFrom(spec, nodes, ps, 1, 1, <<>>)

\* a difference that finds nothing obsolete
getObsoletePortMappings_none(expected, actual) == <<>>

\* a difference that stops at the first obsolete mapping it finds
RECURSIVE getObsoletePortMappings_first(_, _)
getObsoletePortMappings_first(expected, actual) ==
    IF actual = <<>> THEN <<>>
    ELSE IF Head(actual) \in Range(expected)
         THEN getObsoletePortMappings_first(expected, Tail(actual))
         ELSE <<Head(actual)>>

\* a difference that compares the external port only
RECURSIVE getObsoletePortMappings_byPort(_, _)
getObsoletePortMappings_byPort(expected, actual) ==
    IF actual = <<>> THEN <<>>
    ELSE (IF \E j \in DOMAIN expected : expected[j].Port = Head(actual).Port
          THEN <<>> ELSE <<Head(actual)>>)
         \o getObsoletePortMappings_byPort(expected, Tail(actual))

RECURSIVE getObsoletePortMappings(_, _)
getObsoletePortMappings(expected, actual) ==
    IF actual = <<>> THEN <<>>
    ELSE (IF Head(actual) \in Range(expected) THEN <<>> ELSE <<Head(actual)>>)
         \o getObsoletePortMappings(expected, Tail(actual))

\* a comparison that never finds the firewall up to date
FirewallNeedsUpdate_always(fw, expectedPorts) == TRUE

\* fw is <<>> (nil) or <<firewall>>; a rule is <<>> (nil) or <<allowed>>
FirewallNeedsUpdate(fw, expectedPorts) ==
    IF fw = <<>> \/ Len(fw[1].Allowed) # 1 THEN TRUE
    ELSE LET rule == fw[1].Allowed[1] IN
         IF rule = <<>> \/ Len(rule[1].Ports) = 0 THEN TRUE
         ELSE IF rule[1].IPProtocol = <<>> \/ rule[1].IPProtocol # <<"tcp">> THEN TRUE
         ELSE LET portSet == Range(toSortedStr(expectedPorts)) IN
              IF Len(rule[1].Ports) # Cardinality(portSet) THEN TRUE
              ELSE \E i \in 1..Len(rule[1].Ports) : rule[1].Ports[i] \notin portSet

\* the Allowed list CreateFirewall and UpdateFirewall send
firewallAllowed(ports) ==
    << <<[IPProtocol |-> <<"tcp">>, Ports |-> toSortedStr(ports)]>> >>

\* ports of Reconcile: the node ports of the spec's named ports
nodePortSet(spec) == {spec.NodePorts[i].NodePort : i \in 1..Len(spec.NodePorts)}


(***************************************************************************)
(* State.                                                                  *)
(***************************************************************************)
VARIABLES
    sts,        \* the stored StatefulSet: exists, annotation, deleting, finalizer
    pods,       \* the pods List returns: the NodeName of each
    changes,    \* how many times the environment changed pods or annotation
    svc,        \* the NodePort service: <<>> or <<its port set>>
    cloud,      \* which of the five cloud resources exist
    fwAllowed,  \* the Allowed list of the firewall, when it exists
    endpoints,  \* the port mappings attached to the NEG
    pc,         \* where the running pass stands; "idle" between passes
    idx,        \* index into reconcilers / deleters
    spec,       \* the pass's decoded Spec
    nodes,      \* the pass's node map (its keys)
    mappings,   \* the pass's desired port mappings
    obsolete,   \* the pass's obsolete port mappings
    calls,      \* the remote calls the current (or last) pass issued, in order
    res,        \* what the last pass returned
    prev,       \* <<remote state>> left by the last pass if it succeeded on the
                \* create path and nothing changed since; else <<>>
    rep,        \* <<remote state before>> if the last pass repeated such a pass
    arg,        \* a pure function of the controller and the arguments of one call of it
    ret,        \* <<>> or <<what that call returned>>
    gn,         \* one call of getNodes: its goroutines, its channel and its result
    fleet       \* two workloads of one controller and the resources their passes act on

vars ==
    <<sts, pods, changes, svc, cloud, fwAllowed, endpoints, pc, idx, spec, nodes,
      mappings, obsolete, calls, res, prev, rep, arg, ret, gn, fleet>>

world == <<sts, pods, changes, svc, cloud, fwAllowed, endpoints>>
remote == <<svc, cloud, fwAllowed, endpoints>>
locals == <<idx, spec, nodes, mappings, obsolete>>
pure == <<arg, ret, gn, fleet>>

\* no call of getNodes is followed goroutine by goroutine
GnIdle == [main |-> "none"]

\* no second workload is followed
FleetIdle == [path |-> "none"]

\* no call of a pure function is under way
NoArg == [fn |-> "none"]

RemoteState ==
    [svc |-> svc, cloud |-> cloud, fwAllowed |-> fwAllowed, endpoints |-> endpoints]

NoRes ==
    [requeue |-> 0, err |-> NoErr, outcome |-> "none", step |-> "", logged |-> ""]

Init ==
    /\ sts \in [exists : {TRUE}, annotation : {<<>>} \cup {<<a>> : a \in Annotations},
                deleting : {FALSE}, finalizer : {FALSE}]
    /\ pods \in PodLists
    /\ changes = 0
    /\ svc = <<>>
    /\ cloud = [r \in CloudRes |-> FALSE]
    /\ fwAllowed = <<>>
    /\ endpoints = {}
    /\ pc = "idle"
    /\ idx = 0
    /\ spec = ZeroSpec
    /\ nodes = {}
    /\ mappings = <<>>
    /\ obsolete = <<>>
    /\ calls = <<>>
    /\ res = NoRes
    /\ prev = <<>>
    /\ rep = <<>>
    /\ arg = NoArg
    /\ ret = <<>>
    /\ gn = GnIdle
    /\ fleet = FleetIdle

(***************************************************************************)
(* Remote calls and the end of a pass.                                     *)
(***************************************************************************)
\* the locals of a pass, as a new pass finds them
ClearLocals ==
    /\ idx' = 0
    /\ spec' = ZeroSpec
    /\ nodes' = {}
    /\ mappings' = <<>>
    /\ obsolete' = <<>>

\* a call on resource r: its error (NoErr on success) and what it carried
Call(r, op, err, ports, eps) ==
    [res |-> r, op |-> op, err |-> err, ports |-> ports, eps |-> eps]

Issue(r, op, err) == calls' = Append(calls, Call(r, op, err, {}, {}))

\* Reconcile returns (Result{RequeueAfter: rq}, err)
Return(rq, err, outcome, logged) ==
    /\ pc' = "idle"
    /\ res' = [requeue |-> rq, err |-> err, outcome |-> outcome, step |-> pc,
               logged |-> logged]
    /\ prev' = <<>>
    /\ rep' = <<>>

\* the outcomes of a get: the truth, or a failure
GetOutcomes(present) == {IF present THEN NoErr ELSE ErrNotFound} \cup RemoteErrs

\* the outcomes of a create or an update of something present: done, or a failure
ActOutcomes == {NoErr} \cup RemoteErrs

(***************************************************************************)
(* Reconcile, up to the branch into the create or the delete path.         *)
(***************************************************************************)
\* a pass that puts the finalizer on a workload it finds without the annotation
LoadWorkload_marksUnmanaged ==
    /\ pc = "idle"
    /\ \E e \in GetOutcomes(sts.exists) :
          /\ calls' = <<Call("sts", "get", e, {}, {})>>
          /\ IF e \in RemoteErrs THEN Return(0, e, "error", "") /\ UNCHANGED sts
             ELSE IF e = ErrNotFound \/ sts.annotation = <<>>
                  THEN /\ Return(0, NoErr, "noop", "")
                       /\ sts' = [sts EXCEPT !.finalizer = sts.exists]
             ELSE /\ pc' = "finalizer"
                  /\ res' = NoRes
                  /\ UNCHANGED <<sts, prev, rep>>
    /\ ClearLocals
    /\ UNCHANGED <<pods, changes, remote, pure>>

\* r.Get of the StatefulSet and the annotation lookup
LoadWorkload ==
    /\ pc = "idle"
    /\ \E e \in GetOutcomes(sts.exists) :
          /\ calls' = <<Call("sts", "get", e, {}, {})>>
          /\ IF e \in RemoteErrs THEN Return(0, e, "error", "")
             ELSE IF e = ErrNotFound \/ sts.annotation = <<>>
                  THEN Return(0, NoErr, "noop", "")
             ELSE /\ pc' = "finalizer"
                  /\ res' = NoRes
                  /\ UNCHANGED <<prev, rep>>
    /\ ClearLocals
    /\ UNCHANGED world
    /\ UNCHANGED pure

\* a pass that goes on when the update that persists the finalizer failed
EnsureFinalizer_ignoresFailure ==
    /\ pc = "finalizer"
    /\ IF sts.finalizer
       THEN UNCHANGED <<sts, calls>>
       ELSE \E e \in ActOutcomes :
               /\ Issue("sts", "update", e)
               /\ sts' = [sts EXCEPT !.finalizer = (e = NoErr)]
    /\ pc' = "parse"
    /\ UNCHANGED <<pods, changes, remote, locals, res, prev, rep, pure>>

\* a pass that never adds the finalizer
EnsureFinalizer_skipped ==
    /\ pc = "finalizer"
    /\ pc' = "parse"
    /\ UNCHANGED <<world, locals, calls, res, prev, rep, pure>>

\* controllerutil.AddFinalizer and the Update that persists it
EnsureFinalizer ==
    /\ pc = "finalizer"
    /\ IF sts.finalizer
       THEN /\ pc' = "parse"
            /\ UNCHANGED <<sts, calls, res, prev, rep>>
       ELSE \E e \in ActOutcomes :
               /\ Issue("sts", "update", e)
               /\ IF e = NoErr
                  THEN /\ sts' = [sts EXCEPT !.finalizer = TRUE]
                       /\ pc' = "parse"
                       /\ UNCHANGED <<res, prev, rep>>
                  ELSE /\ Return(0, e, "error", "")
                       /\ UNCHANGED sts
    /\ UNCHANGED <<pods, changes, remote, locals>>
    /\ UNCHANGED pure

\* a test that never sees the deletion timestamp
deletionRequested_never(s) == FALSE

\* sts.DeletionTimestamp != nil
deletionRequested(s) == s.deleting

\* json.Unmarshal, validateSpec and the test of the deletion timestamp
ParseSpec ==
    /\ pc = "parse"
    /\ LET a == sts.annotation[1] IN
       IF ~a.decodes
       THEN /\ Return(RequeueDelay, DecodeErr, "error", "")
            /\ UNCHANGED spec
       ELSE IF validateSpec(a.spec) # <<>>
       THEN /\ Return(RequeueDelay, ValidationErr(a.spec), "error", "")
            /\ UNCHANGED spec
       ELSE /\ spec' = a.spec
            /\ pc' = IF deletionRequested(sts) THEN "delete_nodeport" ELSE "nodeport_get"
            /\ UNCHANGED <<res, prev, rep>>
    /\ UNCHANGED <<world, idx, nodes, mappings, obsolete, calls>>
    /\ UNCHANGED pure


(***************************************************************************)
(* The create path before the chain.                                       *)
(***************************************************************************)
svcPorts(sp) ==
    {[Port |-> sp.NodePorts[i].NodePort, TargetPort |-> sp.NodePorts[i].ContainerPort] :
        i \in 1..Len(sp.NodePorts)}

\* reconcileNodePortService: r.Get of the service
NodePortGet ==
    /\ pc = "nodeport_get"
    /\ \E e \in GetOutcomes(svc # <<>>) :
          /\ Issue("nodeport", "get", e)
          /\ IF e = NoErr
             THEN pc' = "nodeport_update" /\ UNCHANGED <<res, prev, rep>>
             ELSE IF e = ErrNotFound
             THEN pc' = "nodeport_create" /\ UNCHANGED <<res, prev, rep>>
             ELSE Return(0, e, "error", "")
    /\ UNCHANGED <<world, locals>>
    /\ UNCHANGED pure

\* reconcileNodePortService: r.Update when the get found the service
NodePortUpdate ==
    /\ pc = "nodeport_update"
    /\ \E e \in ActOutcomes :
          /\ Issue("nodeport", "update", e)
          /\ IF e = NoErr
             THEN /\ svc' = <<svcPorts(spec)>>
                  /\ pc' = "list_pods"
                  /\ UNCHANGED <<res, prev, rep>>
             ELSE /\ Return(0, e, "error", "")
                  /\ UNCHANGED svc
    /\ UNCHANGED <<sts, pods, changes, cloud, fwAllowed, endpoints, locals>>
    /\ UNCHANGED pure

\* reconcileNodePortService: r.Create when the get returned NotFound
NodePortCreate ==
    /\ pc = "nodeport_create"
    /\ \E e \in ActOutcomes :
          /\ Issue("nodeport", "create", e)
          /\ IF e = NoErr
             THEN /\ svc' = <<svcPorts(spec)>>
                  /\ pc' = "list_pods"
                  /\ UNCHANGED <<res, prev, rep>>
             ELSE /\ Return(0, e, "error", "")
                  /\ UNCHANGED svc
    /\ UNCHANGED <<sts, pods, changes, cloud, fwAllowed, endpoints, locals>>
    /\ UNCHANGED pure

\* r.List of the pods matching the selector
ListPods ==
    /\ pc = "list_pods"
    /\ \E e \in ActOutcomes :
          /\ Issue("pods", "list", e)
          /\ IF e = NoErr
             THEN pc' = "get_nodes" /\ UNCHANGED <<res, prev, rep>>
             ELSE Return(RequeueDelay, e, "error", "")
    /\ UNCHANGED <<world, locals>>
    /\ UNCHANGED pure

\* a node resolution that goes on with the nodes it could get
GetNodes_partial ==
    /\ pc = "get_nodes"
    /\ \/ /\ Issue("nodes", "get", NoErr)
          /\ nodes' = {pods[i] : i \in Scheduled(pods)}
       \/ \E i \in Scheduled(pods), e \in RemoteErrs :
             /\ Issue("nodes", "get", Wrap(<<"failed to get node", pods[i]>>, e))
             /\ nodes' = {pods[j] : j \in Scheduled(pods)} \ {pods[i]}
    /\ pc' = "port_mappings"
    /\ UNCHANGED <<world, idx, spec, mappings, obsolete, res, prev, rep, pure>>

\* getNodes: one lookup per scheduled pod, joined; the first error wins
GetNodes ==
    /\ pc = "get_nodes"
    /\ \/ /\ Issue("nodes", "get", NoErr)
          /\ nodes' = {pods[i] : i \in Scheduled(pods)}
          /\ pc' = "port_mappings"
          /\ UNCHANGED <<res, prev, rep>>
       \/ \E i \in Scheduled(pods), e \in RemoteErrs :
             LET err == Wrap(<<"failed to get node", pods[i]>>, e) IN
             /\ Issue("nodes", "get", err)
             /\ Return(RequeueDelay, err, "error", "")
             /\ UNCHANGED nodes
    /\ UNCHANGED <<world, idx, spec, mappings, obsolete>>
    /\ UNCHANGED pure

\* getPortMappings, and the entry into reconcile
PortMappings ==
    /\ pc = "port_mappings"
    /\ LET r == getPortMappings(spec, nodes, pods) IN
       IF r.panic
       THEN /\ Return(0, <<"nil pointer dereference">>, "panic", "")
            /\ UNCHANGED <<mappings, idx>>
       ELSE IF r.err # NoErr
       THEN /\ Return(RequeueDelay, r.err, "error", "")
            /\ UNCHANGED <<mappings, idx>>
       ELSE /\ mappings' = r.val
            /\ idx' = 1
            /\ pc' = "rec_get"
            /\ UNCHANGED <<res, prev, rep>>
    /\ UNCHANGED <<world, spec, nodes, obsolete, calls>>
    /\ UNCHANGED pure


(***************************************************************************)
(* reconcile: the chain of the six reconcilers.                            *)
(***************************************************************************)
\* a loop that wraps the reconciler's error with the resource it names
reconcileErr_wrapped(resource, err) == Wrap(<<resource>>, err)

\* the loop of reconcile logs the resource and returns the reconciler's error as it
\* is; Reconcile returns it with a requeue
reconcileErr(resource, err) == err

\* a reconciler that creates after any failure of its get
createAfterGet_anyError(err) == err # NoErr

\* a reconciler creates its resource when the get returned ErrNotFound, and
\* returns every other error
createAfterGet(err) == ErrorsIs(err, ErrNotFound)

\* a loop that ends the pass as a success when a reconciler fails
Abort_asSuccess(e) == Return(0, NoErr, "ok", "")

\* the loop of reconcile returns the error of the reconciler that failed, and
\* Reconcile returns it with the requeue delay
Abort(e) ==
    Return(RequeueDelay, reconcileErr(reconcilers[idx], e), "error", reconcilers[idx])

\* the reconciler returned nil: the next one, or the end of a successful pass,
\* which leaves the remote state after
Advance(after) ==
    IF idx < Len(reconcilers)
    THEN /\ idx' = idx + 1
         /\ pc' = "rec_get"
         /\ UNCHANGED <<res, prev, rep>>
    ELSE /\ idx' = idx
         /\ pc' = "idle"
         /\ res' = [requeue |-> 0, err |-> NoErr, outcome |-> "ok", step |-> pc,
                    logged |-> ""]
         /\ rep' = prev
         /\ prev' = <<after>>

\* the first call of a reconciler: the get of its resource, or ListEndpoints
RecGet ==
    /\ pc = "rec_get"
    /\ LET r == reconcilers[idx] IN
       IF r = "endpoints"
       THEN \E e \in GetOutcomes(cloud["NEG"]) :
               /\ Issue(r, "list", e)
               /\ IF e # NoErr
                  THEN Abort(e) /\ UNCHANGED <<idx, obsolete>>
                  ELSE LET obs == getObsoletePortMappings(mappings, SetToSeq(endpoints)) IN
                       /\ obsolete' = obs
                       /\ pc' = IF Len(obs) > 0 THEN "rec_detach" ELSE "rec_attach"
                       /\ UNCHANGED <<idx, res, prev, rep>>
       ELSE \E e \in GetOutcomes(cloud[r]) :
               /\ Issue(r, "get", e)
               /\ UNCHANGED obsolete
               /\ IF e = NoErr
                  THEN IF r = "firewall"
                          /\ FirewallNeedsUpdate(<<[Allowed |-> fwAllowed]>>, nodePortSet(spec))
                       THEN pc' = "rec_update" /\ UNCHANGED <<idx, res, prev, rep>>
                       ELSE Advance(RemoteState)
                  ELSE IF createAfterGet(e)
                  THEN pc' = "rec_create" /\ UNCHANGED <<idx, res, prev, rep>>
                  ELSE Abort(e) /\ UNCHANGED idx
    /\ UNCHANGED <<world, spec, nodes, mappings>>
    /\ UNCHANGED pure

\* reconcileFirewall: UpdateFirewall with the desired ports
RecUpdate ==
    /\ pc = "rec_update"
    /\ LET r == reconcilers[idx]
           ports == nodePortSet(spec)
       IN  \E e \in (IF cloud[r] THEN ActOutcomes ELSE {ErrNotFound} \cup RemoteErrs) :
               /\ calls' = Append(calls, Call(r, "update", e, ports, {}))
               /\ IF e = NoErr
                  THEN /\ fwAllowed' = firewallAllowed(ports)
                       /\ Advance([RemoteState EXCEPT !.fwAllowed = firewallAllowed(ports)])
                  ELSE /\ Abort(e)
                       /\ UNCHANGED <<fwAllowed, idx>>
    /\ UNCHANGED <<sts, pods, changes, svc, cloud, endpoints, spec, nodes, mappings, obsolete>>
    /\ UNCHANGED pure

\* the create of a reconciler whose get returned NotFound
RecCreate ==
    /\ pc = "rec_create"
    /\ LET r == reconcilers[idx]
           ports == IF r = "firewall" THEN nodePortSet(spec) ELSE {}
           newFw == IF r = "firewall" THEN firewallAllowed(ports) ELSE fwAllowed
       IN  \E e \in ActOutcomes :
               /\ calls' = Append(calls, Call(r, "create", e, ports, {}))
               /\ IF e = NoErr
                  THEN /\ cloud' = [cloud EXCEPT ![r] = TRUE]
                       /\ fwAllowed' = newFw
                       /\ Advance([RemoteState EXCEPT !.cloud = [cloud EXCEPT ![r] = TRUE],
                                                      !.fwAllowed = newFw])
                  ELSE /\ Abort(e)
                       /\ UNCHANGED <<cloud, fwAllowed, idx>>
    /\ UNCHANGED <<sts, pods, changes, svc, endpoints, spec, nodes, mappings, obsolete>>
    /\ UNCHANGED pure

\* reconcileEndpoints: DetachEndpoints of the obsolete mappings
RecDetach ==
    /\ pc = "rec_detach"
    /\ \E e \in (IF cloud["NEG"] THEN ActOutcomes ELSE {ErrNotFound} \cup RemoteErrs) :
          /\ calls' = Append(calls, Call(reconcilers[idx], "detach", e, {}, Range(obsolete)))
          /\ IF e = NoErr
             THEN /\ endpoints' = endpoints \ Range(obsolete)
                  /\ pc' = "rec_attach"
                  /\ UNCHANGED <<res, prev, rep>>
             ELSE /\ Abort(e)
                  /\ UNCHANGED endpoints
    /\ UNCHANGED <<sts, pods, changes, svc, cloud, fwAllowed, locals>>
    /\ UNCHANGED pure

\* reconcileEndpoints: AttachEndpoints of the desired mappings
RecAttach ==
    /\ pc = "rec_attach"
    /\ \E e \in (IF cloud["NEG"] THEN ActOutcomes ELSE {ErrNotFound} \cup RemoteErrs) :
          /\ calls' = Append(calls, Call(reconcilers[idx], "attach", e, {}, Range(mappings)))
          /\ IF e = NoErr
             THEN /\ endpoints' = endpoints \cup Range(mappings)
                  /\ Advance([RemoteState EXCEPT !.endpoints = endpoints \cup Range(mappings)])
             ELSE /\ Abort(e)
                  /\ UNCHANGED <<endpoints, idx>>
    /\ UNCHANGED <<sts, pods, changes, svc, cloud, fwAllowed, spec, nodes, mappings, obsolete>>
    /\ UNCHANGED pure

(***************************************************************************)
(* delete: the teardown of a workload marked for deletion.                 *)
(***************************************************************************)
\* a loop that stops at ErrNotFound and goes on after every other error
deleteErrIsFatal_notFoundOnly(err) == ErrorsIs(err, ErrNotFound)

\* a loop that stops at ErrNotFound too
deleteErrIsFatal_strict(err) == err # NoErr

\* a loop that goes on after every error
deleteErrIsFatal_never(err) == FALSE

\* the loop of delete goes on after nil and after ErrNotFound
deleteErrIsFatal(err) == err # NoErr /\ ~ErrorsIs(err, ErrNotFound)

DeleteOutcomes(present) ==
    (IF present THEN {NoErr} ELSE {ErrNotFound}) \cup RemoteErrs

\* a teardown that stops when the delete of the NodePort service fails
DeleteNodePort_fatal ==
    /\ pc = "delete_nodeport"
    /\ \E e \in DeleteOutcomes(svc # <<>>) :
          /\ Issue("nodeport", "delete", e)
          /\ svc' = IF e = NoErr THEN <<>> ELSE svc
          /\ IF e = NoErr
             THEN /\ idx' = 1
                  /\ pc' = "delete"
                  /\ UNCHANGED <<res, prev, rep>>
             ELSE /\ Return(RequeueDelay, e, "error", "nodeport")
                  /\ idx' = idx
    /\ UNCHANGED <<sts, pods, changes, cloud, fwAllowed, endpoints, spec, nodes, mappings,
                   obsolete, pure>>

\* r.Delete of the NodePort service; its error is logged only
DeleteNodePort ==
    /\ pc = "delete_nodeport"
    /\ \E e \in DeleteOutcomes(svc # <<>>) :
          /\ Issue("nodeport", "delete", e)
          /\ svc' = IF e = NoErr THEN <<>> ELSE svc
    /\ idx' = 1
    /\ pc' = "delete"
    /\ UNCHANGED <<sts, pods, changes, cloud, fwAllowed, endpoints, spec, nodes, mappings,
                   obsolete, res, prev, rep>>
    /\ UNCHANGED pure

\* one turn of the loop over deleters
DeleteResource ==
    /\ pc = "delete"
    /\ LET r == deleters[idx] IN
       \E e \in DeleteOutcomes(cloud[r]) :
          /\ Issue(r, "delete", e)
          /\ IF e = NoErr
             THEN /\ cloud' = [cloud EXCEPT ![r] = FALSE]
                  /\ fwAllowed' = IF r = "firewall" THEN <<>> ELSE fwAllowed
                  /\ endpoints' = IF r = "NEG" THEN {} ELSE endpoints
             ELSE UNCHANGED <<cloud, fwAllowed, endpoints>>
          /\ IF deleteErrIsFatal(e)
             THEN /\ Return(RequeueDelay, e, "error", r)
                  /\ UNCHANGED idx
             ELSE /\ IF idx < Len(deleters)
                     THEN idx' = idx + 1 /\ pc' = "delete"
                     ELSE idx' = idx /\ pc' = "remove_finalizer"
                  /\ UNCHANGED <<res, prev, rep>>
    /\ UNCHANGED <<sts, pods, changes, svc, spec, nodes, mappings, obsolete>>
    /\ UNCHANGED pure

\* controllerutil.RemoveFinalizer and the Update that persists it
RemoveFinalizer ==
    /\ pc = "remove_finalizer"
    /\ IF sts.finalizer
       THEN \E e \in ActOutcomes :
               /\ Issue("sts", "update", e)
               /\ IF e = NoErr
                  THEN /\ sts' = [sts EXCEPT !.finalizer = FALSE]
                       /\ Return(0, NoErr, "deleted", "")
                  ELSE /\ Return(RequeueDelay, e, "error", "")
                       /\ UNCHANGED sts
       ELSE /\ Return(0, NoErr, "deleted", "")
            /\ UNCHANGED <<sts, calls>>
    /\ UNCHANGED <<pods, changes, remote, locals>>
    /\ UNCHANGED pure

(***************************************************************************)
(* The environment, between passes.                                        *)
(***************************************************************************)
\* the record of the last pass describes the workload as it was: it is dropped
Quiet ==
    /\ UNCHANGED <<remote, pc>>
    /\ ClearLocals
    /\ calls' = <<>>
    /\ res' = NoRes
    /\ prev' = <<>>
    /\ rep' = <<>>
    /\ UNCHANGED pure

\* the user deletes the StatefulSet: the deletion timestamp is set
MarkDeleted ==
    /\ pc = "idle"
    /\ sts.exists /\ ~sts.deleting
    /\ sts' = [sts EXCEPT !.deleting = TRUE]
    /\ UNCHANGED <<pods, changes>>
    /\ Quiet

\* the API server removes a deleted object that carries no finalizer
Collect ==
    /\ pc = "idle"
    /\ sts.exists /\ sts.deleting /\ ~sts.finalizer
    /\ sts' = [sts EXCEPT !.exists = FALSE]
    /\ UNCHANGED <<pods, changes>>
    /\ Quiet

\* the pod listings one step away: the StatefulSet scales up by one pod, scales
\* down by its last pod, or one pod is rescheduled
PodSteps(ps) ==
    {Append(ps, n) : n \in IF Len(ps) < MaxPods THEN NodeNames ELSE {}}
    \cup (IF Len(ps) > 0 THEN {SubSeq(ps, 1, Len(ps) - 1)} ELSE {})
    \cup {[ps EXCEPT ![i] = n] : i \in 1..Len(ps), n \in NodeNames}

\* pods are added, removed or rescheduled
SetPods ==
    /\ pc = "idle"
    /\ changes < MaxChanges
    /\ \E ps \in PodSteps(pods) \ {pods} : pods' = ps
    /\ changes' = changes + 1
    /\ UNCHANGED sts
    /\ Quiet

\* the user edits, adds or removes the annotation
SetAnnotation ==
    /\ pc = "idle"
    /\ changes < MaxChanges
    /\ sts.exists
    /\ \E a \in ({<<>>} \cup {<<x>> : x \in Annotations}) \ {sts.annotation} :
          sts' = [sts EXCEPT !.annotation = a]
    /\ changes' = changes + 1
    /\ UNCHANGED pods
    /\ Quiet

Next ==
    \/ LoadWorkload
    \/ EnsureFinalizer
    \/ ParseSpec
    \/ NodePortGet
    \/ NodePortUpdate
    \/ NodePortCreate
    \/ ListPods
    \/ GetNodes
    \/ PortMappings
    \/ RecGet
    \/ RecUpdate
    \/ RecCreate
    \/ RecDetach
    \/ RecAttach
    \/ DeleteNodePort
    \/ DeleteResource
    \/ RemoveFinalizer
    \/ MarkDeleted
    \/ Collect
    \/ SetPods
    \/ SetAnnotation

Spec == Init /\ [][Next]_vars

(***************************************************************************)
(* The pure functions of the controller, each applied once to arguments    *)
(* drawn from a bounded set; the reconciler stands still.                  *)
(***************************************************************************)
reconciler ==
    <<sts, pods, changes, svc, cloud, fwAllowed, endpoints, pc, idx, spec, nodes,
      mappings, obsolete, calls, res, prev, rep>>

\* a consumer_accept_list entry: a nil pointer or a Consumer
ConsumerInputs ==
    {<<>>} \cup
    {<<c>> : c \in [NetworkFQN : {<<>>, <<GoodNetwork>>, <<BadNetwork>>},
                     ProjectIdOrNum : {<<>>, <<"project1">>},
                     ConnectionLimit : {0, 10}]}

SpecInputs ==
    [Prefix : {"prefix-"},
     ConsumerAcceptList : SeqsUpTo(ConsumerInputs, MaxConsumers),
     NatSubnetFQNs : SeqsUpTo({GoodSubnet, BadSubnet}, MaxSubnets),
     NodePorts : {<<PortA>>}]

\* port mappings that differ in one field each
MappingInputs ==
    LET i0 == <<"projects", "p", "zones", "z", "instances", "n0">>
        i1 == <<"projects", "p", "zones", "z", "instances", "n1">>
    IN  {[Port |-> 31000, Instance |-> i0, InstancePort |-> 30000],
         [Port |-> 31001, Instance |-> i0, InstancePort |-> 30000],
         [Port |-> 31000, Instance |-> i1, InstancePort |-> 30000],
         [Port |-> 31000, Instance |-> i0, InstancePort |-> 30001]}

\* spec.NodePorts in the orders a range over the map can visit it
NodePortInputs == {<<>>, <<PortA>>, <<PortA, PortB>>, <<PortB, PortA>>}

\* the key of the annotation that carries the spec
annotation == "psc-portmapper.0x5d.org/spec"

\* a filter that wants a value under the key
isAnnotated_nonEmpty(obj) ==
    /\ obj.type = "StatefulSet"
    /\ annotation \in DOMAIN obj.Annotations
    /\ obj.Annotations[annotation] # ""

\* the function isAnnotated hands to predicate.NewPredicateFuncs: the type
\* assertion on the object and the lookup of the key in its annotations
isAnnotated(obj) ==
    IF obj.type # "StatefulSet" THEN FALSE
    ELSE annotation \in DOMAIN obj.Annotations

\* predicate.NewPredicateFuncs: the object the filter is applied to is the object
\* of a create, delete or generic event and the new object of an update event
NewPredicateFuncs(e) == IF e.kind = "update" THEN e.ObjectNew ELSE e.Object

\* the annotations of an object: a map from some keys to values
AnnotationInputs ==
    UNION {[K -> {"", "{}"}] : K \in SUBSET {annotation, "kubernetes.io/hostname"}}

ObjectInputs ==
    {[type |-> t, Annotations |-> m] :
        t \in {"StatefulSet", "Deployment"}, m \in AnnotationInputs}

\* the events a watch delivers
EventInputs ==
    {[kind |-> k, Object |-> o] : k \in {"create", "delete", "generic"}, o \in ObjectInputs}
    \cup {[kind |-> "update", ObjectOld |-> o, ObjectNew |-> n] :
             o \in ObjectInputs, n \in ObjectInputs}

\* the Ports of an allow rule: decimal strings, in any order, with repetitions
RulePortInputs == SeqsUpTo({Itoa(PortA.NodePort), Itoa(PortB.NodePort)}, MaxRulePorts)

\* an entry of Firewall.Allowed: a nil pointer or a rule
RuleInputs ==
    {<<>>} \cup {<<[IPProtocol |-> pr, Ports |-> ps]>> :
                    pr \in {<<>>, <<"tcp">>, <<"udp">>}, ps \in RulePortInputs}

\* a *computepb.Firewall: nil, or one with no, one or two allow rules
FirewallInputs ==
    {<<>>}
    \cup {<<[Allowed |-> al]>> :
             al \in {<<>>} \cup {<<r>> : r \in RuleInputs}
                     \cup {<<r, firewallAllowed({PortA.NodePort})[1]>> : r \in RuleInputs}}

\* the pods of the cluster: namespace, labels and node of each
PodInputs ==
    [ns : Namespaces, labels : {{"app=db"}, {"app=db", "tier=x"}, {"app=web"}},
     node : {"n0", "n1"}]

\* the namespaces the client of the reconciler reads: the one of the workload, or
\* all of them
ScopeInputs == {{"ns1"}, Namespaces}

\* r.List(ctx, &pods, client.MatchingLabels(selector)): the pods the client reads
\* whose labels include the selector's; no option names a namespace
listPods(cluster, scope, selector) ==
    SelectSeq(cluster, LAMBDA p : p.ns \in scope /\ selector \subseteq p.labels)

\* http.StatusNotFound
StatusNotFound == 404

\* the HTTP codes of an *apierror.APIError; -1 when it carries no HTTP code
HTTPCodes == {400, 403, StatusNotFound, 409, 500, -1}

\* the errors a request or the wait on its operation returns: an
\* *apierror.APIError with its HTTPCode, or an error of another type
RemoteErrorInputs ==
    {[api |-> TRUE, code |-> c, text |-> "api error"] : c \in HTTPCodes}
    \cup {[api |-> FALSE, code |-> -1, text |-> "context deadline exceeded"]}

\* what a request or a wait returns: <<>> for nil, or <<its error>>
OutcomeInputs == {<<>>} \cup {<<e>> : e \in RemoteErrorInputs}

\* &ClientError{msg, status}, as its Error() reads
ClientError(msg, status) == <<msg \o " (status " \o ToString(status) \o ")">>

\* a mapping that knows no sentinel: a 404 becomes a ClientError like the others
toClientError_noSentinel(err) ==
    IF err.api THEN ClientError(err.text, err.code) ELSE ClientError(err.text, -1)

toClientError(err) ==
    IF err.api
    THEN IF err.code = StatusNotFound THEN ErrNotFound
         ELSE ClientError(err.text, err.code)
    ELSE ClientError(err.text, -1)

\* get: the request's result, its error mapped
get(f) == IF f = <<>> THEN NoErr ELSE toClientError(f[1])

\* call: the request, then op.Wait; the error of either mapped
call(f, wait) ==
    IF f # <<>> THEN toClientError(f[1])
    ELSE IF wait = <<>> THEN NoErr
    ELSE toClientError(wait[1])

PureInputs ==
    {[fn |-> "validateSpec", spec |-> sp] : sp \in SpecInputs}
    \cup {[fn |-> "parseSpec", a |-> [decodes |-> TRUE, spec |-> sp]] : sp \in SpecInputs}
    \cup {[fn |-> "parseSpec", a |-> [decodes |-> FALSE, spec |-> ZeroSpec]]}
    \cup {[fn |-> "getObsoletePortMappings", expected |-> e, actual |-> a] :
             e \in SeqsUpTo(MappingInputs, MaxMappings),
             a \in SeqsUpTo(MappingInputs, MaxMappings)}
    \cup {[fn |-> "getPortMappings", spec |-> [ZeroSpec EXCEPT !.NodePorts = np],
            pods |-> ps] : np \in NodePortInputs, ps \in PodLists}
    \cup {[fn |-> "FirewallNeedsUpdate", fw |-> fw, expectedPorts |-> ep] :
             fw \in FirewallInputs, ep \in SUBSET {PortA.NodePort, PortB.NodePort}}
    \cup {[fn |-> "isAnnotated", e |-> e] : e \in EventInputs}
    \cup {[fn |-> "get", f |-> f] : f \in OutcomeInputs}
    \cup {[fn |-> "call", f |-> f, wait |-> w] : f \in OutcomeInputs, w \in OutcomeInputs}
    \cup {[fn |-> "listPods", ns |-> "ns1", selector |-> {"app=db"}, spec |-> SpecOnePort,
            scope |-> sc, cluster |-> c] :
             sc \in ScopeInputs, c \in SeqsUpTo(PodInputs, MaxPods)}

InitPure ==
    /\ arg \in PureInputs
    /\ ret = <<>>
    /\ gn = GnIdle
    /\ fleet = FleetIdle
    /\ sts = [exists |-> FALSE, annotation |-> <<>>, deleting |-> FALSE,
              finalizer |-> FALSE]
    /\ pods = <<>>
    /\ changes = 0
    /\ svc = <<>>
    /\ cloud = [r \in CloudRes |-> FALSE]
    /\ fwAllowed = <<>>
    /\ endpoints = {}
    /\ pc = "pure"
    /\ idx = 0
    /\ spec = ZeroSpec
    /\ nodes = {}
    /\ mappings = <<>>
    /\ obsolete = <<>>
    /\ calls = <<>>
    /\ res = NoRes
    /\ prev = <<>>
    /\ rep = <<>>

\* validateSpec(log, &spec)
ApplyValidateSpec ==
    /\ arg.fn = "validateSpec" /\ ret = <<>>
    /\ ret' = <<validateSpecCall(arg.spec)>>
    /\ UNCHANGED <<reconciler, arg, gn, fleet>>

\* parseSpec(log, jsonSpec)
ApplyParseSpec ==
    /\ arg.fn = "parseSpec" /\ ret = <<>>
    /\ ret' = <<parseSpec(arg.a)>>
    /\ UNCHANGED <<reconciler, arg, gn, fleet>>

\* getObsoletePortMappings(expected, actual)
ApplyGetObsoletePortMappings ==
    /\ arg.fn = "getObsoletePortMappings" /\ ret = <<>>
    /\ ret' = <<getObsoletePortMappings(arg.expected, arg.actual)>>
    /\ UNCHANGED <<reconciler, arg, gn, fleet>>

\* getPortMappings(log, &spec, nodes, pods), nodes being the map getNodes returns:
\* the nodes of the scheduled pods
ApplyGetPortMappings ==
    /\ arg.fn = "getPortMappings" /\ ret = <<>>
    /\ ret' = <<getPortMappings(arg.spec, {arg.pods[i] : i \in Scheduled(arg.pods)},
                                arg.pods)>>
    /\ UNCHANGED <<reconciler, arg, gn, fleet>>

\* FirewallNeedsUpdate(fw, expectedPorts)
ApplyFirewallNeedsUpdate ==
    /\ arg.fn = "FirewallNeedsUpdate" /\ ret = <<>>
    /\ ret' = <<FirewallNeedsUpdate(arg.fw, arg.expectedPorts)>>
    /\ UNCHANGED <<reconciler, arg, gn, fleet>>

\* the event filter of SetupWithManager, applied to one event
ApplyIsAnnotated ==
    /\ arg.fn = "isAnnotated" /\ ret = <<>>
    /\ ret' = <<isAnnotated(NewPredicateFuncs(arg.e))>>
    /\ UNCHANGED <<reconciler, arg, gn, fleet>>

\* the listing of the pods of a workload in namespace arg.ns, and the port
\* mappings Reconcile computes from it
ApplyListPods ==
    /\ arg.fn = "listPods" /\ ret = <<>>
    /\ LET listed == listPods(arg.cluster, arg.scope, arg.selector)
           names == [i \in DOMAIN listed |-> listed[i].node]
       IN  ret' = <<[pods |-> listed,
                     mappings |-> getPortMappings(arg.spec, Range(names), names).val]>>
    /\ UNCHANGED <<reconciler, arg, gn, fleet>>

ApplyGet ==
    /\ arg.fn = "get" /\ ret = <<>>
    /\ ret' = <<get(arg.f)>>
    /\ UNCHANGED <<reconciler, arg, gn, fleet>>

ApplyCall ==
    /\ arg.fn = "call" /\ ret = <<>>
    /\ ret' = <<call(arg.f, arg.wait)>>
    /\ UNCHANGED <<reconciler, arg, gn, fleet>>

NextPure ==
    \/ ApplyValidateSpec
    \/ ApplyParseSpec
    \/ ApplyGetObsoletePortMappings
    \/ ApplyGetPortMappings
    \/ ApplyFirewallNeedsUpdate
    \/ ApplyIsAnnotated
    \/ ApplyListPods
    \/ ApplyGet
    \/ ApplyCall

SpecPure == InitPure /\ [][NextPure]_vars

(***************************************************************************)
(* getNodes, goroutine by goroutine: the loop that starts one lookup per   *)
(* scheduled pod with errgroup.Group.Go, the lookups, the sends on         *)
(* nodesCh, wg.Wait, close(nodesCh) and the loop that drains the channel.  *)
(***************************************************************************)
\* a channel without a buffer
nodesChCap_unbuffered(ps) == 0

\* make(chan *corev1.Node, numPods)
nodesChCap(ps) == Len(ps)

\* the calls of getNodes: the pods, and the pods whose node lookup fails
GetNodesInputs ==
    UNION {{[pods |-> ps, fails |-> f] : f \in SUBSET Scheduled(ps)} : ps \in PodLists}

\* the reconciler stands still
ReconcilerParked ==
    /\ sts = [exists |-> FALSE, annotation |-> <<>>, deleting |-> FALSE,
              finalizer |-> FALSE]
    /\ pods = <<>>
    /\ changes = 0
    /\ svc = <<>>
    /\ cloud = [r \in CloudRes |-> FALSE]
    /\ fwAllowed = <<>>
    /\ endpoints = {}
    /\ pc = "getNodes"
    /\ idx = 0
    /\ spec = ZeroSpec
    /\ nodes = {}
    /\ mappings = <<>>
    /\ obsolete = <<>>
    /\ calls = <<>>
    /\ res = NoRes
    /\ prev = <<>>
    /\ rep = <<>>

InitNodes ==
    /\ ReconcilerParked
    /\ arg = NoArg
    /\ ret = <<>>
    /\ fleet = FleetIdle
    /\ \E in \in GetNodesInputs :
          gn = [pods |-> in.pods, fails |-> in.fails,
                task |-> [i \in DOMAIN in.pods |-> "none"],
                ch |-> <<>>, closed |-> FALSE, err |-> NoErr,
                main |-> "spawn", i |-> 1, nodes |-> {}, out |-> <<>>,
                panic |-> FALSE]

\* one turn of the loop over pods: an unscheduled pod is skipped, wg.Go starts the
\* lookup of a scheduled one; after the last pod the caller goes on to wg.Wait
Spawn ==
    /\ gn.main = "spawn"
    /\ gn' = IF gn.i > Len(gn.pods) THEN [gn EXCEPT !.main = "wait"]
             ELSE IF gn.pods[gn.i] = "" THEN [gn EXCEPT !.i = @ + 1]
             ELSE [gn EXCEPT !.i = @ + 1, !.task[gn.i] = "get"]
    /\ UNCHANGED <<reconciler, arg, ret, fleet>>

\* r.Get of the node in the goroutine of pod i: on failure the goroutine returns
\* the wrapped error, and the group keeps the first error returned
Lookup(i) ==
    /\ i \in DOMAIN gn.task /\ gn.task[i] = "get"
    /\ gn' = IF i \in gn.fails
             THEN [gn EXCEPT !.task[i] = "done",
                             !.err = IF @ = NoErr
                                     THEN Wrap(<<"failed to get node", gn.pods[i]>>,
                                               CHOOSE e \in RemoteErrs : TRUE)
                                     ELSE @]
             ELSE [gn EXCEPT !.task[i] = "send"]
    /\ UNCHANGED <<reconciler, arg, ret, fleet>>

\* nodesCh <- node in the goroutine of pod i: it waits while the buffer is full;
\* a send on a closed channel panics
Send(i) ==
    /\ i \in DOMAIN gn.task /\ gn.task[i] = "send"
    /\ gn.closed \/ Len(gn.ch) < nodesChCap(gn.pods)
    /\ gn' = IF gn.closed
             THEN [gn EXCEPT !.task[i] = "done", !.panic = TRUE]
             ELSE [gn EXCEPT !.task[i] = "done", !.ch = Append(@, gn.pods[i])]
    /\ UNCHANGED <<reconciler, arg, ret, fleet>>

\* wg.Wait returns when every goroutine started has returned
Wait ==
    /\ gn.main = "wait"
    /\ \A i \in DOMAIN gn.task : gn.task[i] \in {"none", "done"}
    /\ gn' = [gn EXCEPT !.main = "close"]
    /\ UNCHANGED <<reconciler, arg, ret, fleet>>

\* close(nodesCh), and the return of nil and the error when a lookup failed
Close ==
    /\ gn.main = "close"
    /\ gn' = IF gn.err # NoErr
             THEN [gn EXCEPT !.closed = TRUE, !.main = "done",
                             !.out = <<[nodes |-> <<>>, err |-> gn.err]>>]
             ELSE [gn EXCEPT !.closed = TRUE, !.main = "drain"]
    /\ UNCHANGED <<reconciler, arg, ret, fleet>>

\* one turn of the loop with the select: a node is received and put in the map;
\* the closed and empty channel ends the loop and getNodes returns the map; the
\* default case goes round again
Drain ==
    /\ gn.main = "drain"
    /\ gn' = IF Len(gn.ch) > 0
             THEN [gn EXCEPT !.ch = Tail(@), !.nodes = @ \cup {Head(gn.ch)}]
             ELSE IF gn.closed
             THEN [gn EXCEPT !.main = "done",
                             !.out = <<[nodes |-> <<gn.nodes>>, err |-> NoErr]>>]
             ELSE gn
    /\ UNCHANGED <<reconciler, arg, ret, fleet>>

NextNodes ==
    \/ Spawn
    \/ \E i \in 1..MaxPods : Lookup(i)
    \/ \E i \in 1..MaxPods : Send(i)
    \/ Wait
    \/ Close
    \/ Drain

\* the scheduler lets every goroutine that can take a step take it eventually
FairNodes ==
    /\ WF_vars(Spawn) /\ WF_vars(Wait) /\ WF_vars(Close) /\ WF_vars(Drain)
    /\ \A i \in 1..MaxPods : WF_vars(Lookup(i)) /\ WF_vars(Send(i))

SpecNodes == InitNodes /\ [][NextNodes]_vars /\ FairNodes

(***************************************************************************)
(* Two workloads of one controller.  The cloud resources live in the one   *)
(* project of the client and are told apart by their names only; a Service *)
(* is told apart by its namespace and its name.  A name is the sequence of *)
(* the strings that are concatenated.                                      *)
(***************************************************************************)
portmapperApp == "psc-portmapper"

nameBase(prefix) == <<prefix, portmapperApp>>

nodeportName(prefix) == nameBase(prefix)

firewallName(prefix) == nameBase(prefix) \o <<"-firewall">>

negName(prefix) == nameBase(prefix) \o <<"-neg">>

backendName(prefix) == nameBase(prefix) \o <<"-backend">>

fwdRuleName(prefix) == nameBase(prefix) \o <<"-fwdrule">>

svcAttName(prefix) == nameBase(prefix) \o <<"-svcatt">>

\* the object a reconciler or a deleter acts on; the endpoints are those of the NEG
cloudTarget(r, prefix) ==
    CASE r = "firewall" -> [kind |-> "firewall", ns |-> "", name |-> firewallName(prefix)]
      [] r = "NEG" -> [kind |-> "NEG", ns |-> "", name |-> negName(prefix)]
      [] r = "endpoints" -> [kind |-> "NEG", ns |-> "", name |-> negName(prefix)]
      [] r = "backend" -> [kind |-> "backend", ns |-> "", name |-> backendName(prefix)]
      [] r = "forwarding rule" ->
            [kind |-> "forwarding rule", ns |-> "", name |-> fwdRuleName(prefix)]
      [] r = "service attachment" ->
            [kind |-> "service attachment", ns |-> "", name |-> svcAttName(prefix)]

\* the NodePort service of a workload: in the namespace of the StatefulSet
nodePortTarget(ns, prefix) == [kind |-> "nodeport", ns |-> ns, name |-> nodeportName(prefix)]

\* two StatefulSets with different keys
Workloads == {"w1", "w2"}

Prefixes == {"", "a"}

InitShared ==
    /\ sts = [exists |-> FALSE, annotation |-> <<>>, deleting |-> FALSE,
              finalizer |-> FALSE]
    /\ pods = <<>>
    /\ changes = 0
    /\ svc = <<>>
    /\ cloud = [r \in CloudRes |-> FALSE]
    /\ fwAllowed = <<>>
    /\ endpoints = {}
    /\ pc = "fleet"
    /\ idx = 0
    /\ spec = ZeroSpec
    /\ nodes = {}
    /\ mappings = <<>>
    /\ obsolete = <<>>
    /\ calls = <<>>
    /\ res = NoRes
    /\ prev = <<>>
    /\ rep = <<>>
    /\ arg = NoArg
    /\ ret = <<>>
    /\ gn = GnIdle
    /\ \E n \in [Workloads -> Namespaces], p \in [Workloads -> Prefixes] :
          fleet = [ns |-> n, prefix |-> p,
                   deleting |-> [w \in Workloads |-> FALSE],
                   gone |-> [w \in Workloads |-> FALSE],
                   path |-> [w \in Workloads |-> "none"],
                   at |-> [w \in Workloads |-> 0],
                   done |-> [w \in Workloads |-> FALSE],
                   exists |-> {},
                   acted |-> [w \in Workloads |-> {}]]

\* a pass on workload w starts and takes the create or the delete path
Begin(w) ==
    /\ ~fleet.gone[w]
    /\ fleet.path[w] = "none"
    /\ fleet' = [fleet EXCEPT
                    !.path[w] = IF fleet.deleting[w] THEN "delete" ELSE "create",
                    !.at[w] = 0]
    /\ UNCHANGED <<reconciler, arg, ret, gn>>

\* the next get-or-create of the pass on w: the NodePort service, then each of
\* reconcilers
ReconcileStep(w) ==
    /\ fleet.path[w] = "create"
    /\ LET k == fleet.at[w]
           t == IF k = 0 THEN nodePortTarget(fleet.ns[w], fleet.prefix[w])
                ELSE cloudTarget(reconcilers[k], fleet.prefix[w])
           last == k = Len(reconcilers)
       IN  fleet' = [fleet EXCEPT
                        !.exists = @ \cup {t},
                        !.acted[w] = @ \cup {t},
                        !.at[w] = IF last THEN 0 ELSE k + 1,
                        !.done[w] = @ \/ last,
                        !.path[w] = IF last THEN "none" ELSE "create"]
    /\ UNCHANGED <<reconciler, arg, ret, gn>>

\* the next delete of the pass on w: the NodePort service, then each of deleters,
\* then the finalizer
DeleteStep(w) ==
    /\ fleet.path[w] = "delete"
    /\ LET k == fleet.at[w]
           t == IF k = 0 THEN nodePortTarget(fleet.ns[w], fleet.prefix[w])
                ELSE cloudTarget(deleters[k], fleet.prefix[w])
           last == k = Len(deleters)
       IN  fleet' = [fleet EXCEPT
                        !.exists = @ \ {t},
                        !.acted[w] = @ \cup {t},
                        !.at[w] = IF last THEN 0 ELSE k + 1,
                        !.gone[w] = last,
                        !.path[w] = IF last THEN "none" ELSE "delete"]
    /\ UNCHANGED <<reconciler, arg, ret, gn>>

\* the user deletes workload w
DeleteWorkload(w) ==
    /\ ~fleet.deleting[w]
    /\ fleet' = [fleet EXCEPT !.deleting[w] = TRUE]
    /\ UNCHANGED <<reconciler, arg, ret, gn>>

NextShared ==
    \/ \E w \in Workloads : Begin(w)
    \/ \E w \in Workloads : ReconcileStep(w)
    \/ \E w \in Workloads : DeleteStep(w)
    \/ \E w \in Workloads : DeleteWorkload(w)

SpecShared == InitShared /\ [][NextShared]_vars

(***************************************************************************)
(* Passes that are run again.  The controller runs a pass on every event   *)
(* of the workload, and runs the pass again when Reconcile returned an     *)
(* error, panicked or asked for a requeue; each call of a pass returns.    *)
(***************************************************************************)
\* the steps of a pass under way
PassStep ==
    \/ EnsureFinalizer
    \/ ParseSpec
    \/ NodePortGet
    \/ NodePortUpdate
    \/ NodePortCreate
    \/ ListPods
    \/ GetNodes
    \/ PortMappings
    \/ RecGet
    \/ RecUpdate
    \/ RecCreate
    \/ RecDetach
    \/ RecAttach
    \/ DeleteNodePort
    \/ DeleteResource
    \/ RemoveFinalizer

\* the start of a pass that an event or the failure of the last pass calls for
Rerun == LoadWorkload /\ res.outcome \in {"none", "error", "panic"}

\* the step is a remote call that failed for a reason other than NotFound
CallFailed ==
    /\ calls' # calls
    /\ calls' # <<>>
    /\ \E e \in RemoteErrs : ErrorsIs(calls'[Len(calls')].err, e)

\* a pass under way goes on, a pass that is called for starts, and from some
\* point on the remote calls succeed
FairLive ==
    /\ WF_vars(PassStep)
    /\ WF_vars(Rerun)
    /\ <>[][~CallFailed]_vars

SpecLive == Init /\ [][Next]_vars /\ FairLive

(***************************************************************************)
(* Properties.  The record of calls holds each call at its return, in the  *)
(* order of the returns; a pass issues its next call after the return of   *)
(* the one before.                                                         *)
(***************************************************************************)
\* the seven managed resources: the exposure service, the five cloud resources and
\* the endpoint membership of the NEG
Managed == CloudRes \cup {"nodeport", "endpoints"}

ManagedOrder ==
    <<"nodeport", "firewall", "NEG", "backend", "endpoints", "forwarding rule",
      "service attachment">>

Rank(r) == CHOOSE k \in DOMAIN ManagedOrder : ManagedOrder[k] = r

OnManaged(c) == c.res \in Managed

IsDelete(c) == c.op = "delete"

IsCloudDelete(c) == c.op = "delete" /\ c.res \in CloudRes

IsCloud(r) == r \in CloudRes

Mutating(c) ==
    c.res \in Managed /\ c.op \in {"create", "update", "attach", "detach", "delete"}

\* a pass has returned and its record stands
PassEnded == pc = "idle" /\ calls # <<>>

\* the pass that has just ended succeeded, as did the pass before it, and nothing
\* changed in between
Repeated == pc = "idle" /\ rep # <<>>

\* C1: in a pass on the create path the calls on the managed resources come in the
\* order exposure service, firewall, NEG, backend, endpoints, forwarding rule,
\* service attachment: no call on an earlier resource follows a call on a later
\* one, and a pass that succeeds has called every one of the seven.
C1_ReconcileOrder ==
    LET m == SelectSeq(calls, OnManaged) IN
    (\A i \in DOMAIN calls : ~IsDelete(calls[i])) =>
        /\ \A i, j \in DOMAIN m : i < j => Rank(m[i].res) <= Rank(m[j].res)
        /\ (pc = "idle" /\ res.outcome = "ok") => {m[i].res : i \in DOMAIN m} = Managed

\* a pass that found nothing and created everything
C1_CreatesEverything ==
    /\ pc = "idle" /\ res.outcome = "ok"
    /\ \A r \in Managed \ {"endpoints"} :
          \E i \in DOMAIN calls :
             calls[i].res = r /\ calls[i].op = "create" /\ calls[i].err = NoErr
    /\ \E i \in DOMAIN calls : calls[i].op = "attach" /\ calls[i].eps # {}

C3_Idempotent ==
    Repeated => RemoteState = rep[1]

\* a repeated pass with all six resources in place and endpoints attached
C3_RepeatedAllPresent ==
    /\ Repeated
    /\ svc # <<>> /\ \A r \in CloudRes : cloud[r]
    /\ endpoints # {}

DeleteOrder ==
    <<"nodeport", "service attachment", "forwarding rule", "backend", "NEG", "firewall">>

\* C4: the delete calls of a pass are, in order, a prefix of exposure service,
\* service attachment, forwarding rule, backend, NEG, firewall; the five cloud
\* resources go in the reverse of the order they are created in; the update that
\* removes the finalizer comes after all six delete calls and ends the pass.
C4_DeleteOrder ==
    LET d == SelectSeq(calls, IsDelete)
        created == SelectSeq(reconcilers, IsCloud)
    IN  /\ Len(d) <= Len(DeleteOrder)
        /\ \A i \in DOMAIN d : d[i].res = DeleteOrder[i]
        /\ \A k \in 1..5 : DeleteOrder[k + 1] = created[6 - k]
        /\ \A i \in DOMAIN calls :
              ( /\ calls[i].res = "sts" /\ calls[i].op = "update"
                /\ \E j \in 1..(i - 1) : IsDelete(calls[j]) ) =>
                  /\ i = Len(calls)
                  /\ Len(d) = Len(DeleteOrder)
        /\ (pc = "idle" /\ res.outcome = "deleted") => Len(d) = Len(DeleteOrder)

\* a teardown that found and deleted everything, then removed the finalizer
C4_DeletesEverything ==
    /\ pc = "idle" /\ res.outcome = "deleted"
    /\ LET d == SelectSeq(calls, IsDelete) IN
          Len(d) = 6 /\ \A i \in DOMAIN d : d[i].err = NoErr
    /\ calls[Len(calls)] = Call("sts", "update", NoErr, {}, {})

\* C5: a pass on the delete path in which every delete call on a cloud resource
\* returned success or NotFound, and the update that removes the finalizer did not
\* fail, has issued the five delete calls in order, has removed the finalizer and
\* returns no error and an empty result.
C5_NotFoundIsSuccess ==
    LET d == SelectSeq(calls, IsCloudDelete) IN
    ( /\ PassEnded
      /\ \E i \in DOMAIN calls : IsDelete(calls[i])
      /\ \A i \in DOMAIN d : d[i].err \in {NoErr, ErrNotFound}
      /\ \A i \in DOMAIN calls :
            (calls[i].res = "sts" /\ calls[i].op = "update") => calls[i].err = NoErr )
    =>  /\ [i \in DOMAIN d |-> d[i].res] = deleters
        /\ ~sts.finalizer
        /\ res.err = NoErr /\ res.requeue = 0 /\ res.outcome = "deleted"

\* a teardown in which all five cloud resources were gone already
C5_AllFiveNotFound ==
    LET d == SelectSeq(calls, IsCloudDelete) IN
    /\ PassEnded /\ res.outcome = "deleted"
    /\ Len(d) = 5 /\ \A i \in DOMAIN d : d[i].err = ErrNotFound

\* C6: the finalizer goes from present to absent only at the end of a pass whose
\* record holds the five cloud delete calls, in order, each returned with success
\* or NotFound; and then none of the five cloud resources exists.
C6_FinalizerRemoval ==
    [][ (sts.finalizer /\ ~sts'.finalizer) =>
            LET d == SelectSeq(calls', IsCloudDelete) IN
            /\ [i \in DOMAIN d |-> d[i].res] =
                  <<"service attachment", "forwarding rule", "backend", "NEG", "firewall">>
            /\ \A i \in DOMAIN d : d[i].err \in {NoErr, ErrNotFound}
            /\ \A r \in CloudRes : ~cloud'[r] ]_vars

\* the finalizer is gone after a teardown that deleted some resources and found
\* the others gone
C6_RemovedAfterMixedTeardown ==
    LET d == SelectSeq(calls, IsCloudDelete) IN
    /\ pc = "idle" /\ res.outcome = "deleted" /\ ~sts.finalizer
    /\ \E i \in DOMAIN d : d[i].err = NoErr
    /\ \E i \in DOMAIN d : d[i].err = ErrNotFound

\* the pass that has just ended loaded a workload that carries a deletion timestamp
LoadedDeleting == PassEnded /\ calls[1].err = NoErr /\ sts.deleting

BuildsUp(c) == c.res \in Managed /\ c.op \in {"create", "update", "attach"}

ChainFailure(c) ==
    /\ c.res \in Range(reconcilers) /\ c.op # "delete"
    /\ c.err # NoErr
    /\ ~(c.op = "get" /\ c.err = ErrNotFound)

\* C8: a failed call of the chain is the last call of its pass: the pass has
\* returned, with that error; what the calls before it created is still there.
C8_AbortNoRollback ==
    \A i \in DOMAIN calls :
        ChainFailure(calls[i]) =>
            /\ i = Len(calls)
            /\ pc = "idle" /\ res.outcome = "error" /\ res.err = calls[i].err
            /\ svc # <<>>
            /\ \A j \in 1..(i - 1) :
                  calls[j].err = NoErr =>
                      /\ (calls[j].op = "create" /\ calls[j].res \in CloudRes)
                             => cloud[calls[j].res]
                      /\ calls[j].op = "attach" => calls[j].eps \subseteq endpoints

\* the create of the backend fails after the pass created the NEG
C8_BackendCreateFails ==
    /\ pc = "idle" /\ res.outcome = "error"
    /\ calls[Len(calls)].res = "backend" /\ calls[Len(calls)].op = "create"
    /\ \E j \in DOMAIN calls :
          calls[j].res = "NEG" /\ calls[j].op = "create" /\ calls[j].err = NoErr
    /\ cloud["NEG"] /\ ~cloud["backend"]

\* C9: every pass that ends because a remote call failed returns a result that
\* asks for a requeue after the fixed delay.
C9_FailureRequeues ==
    (PassEnded /\ res.outcome = "error" /\ calls[Len(calls)].err # NoErr) =>
        res.requeue = RequeueDelay

\* the pass that has just ended stopped at a failing call of the chain
ChainFailed ==
    /\ PassEnded /\ res.outcome = "error"
    /\ res.step \in {"rec_get", "rec_update", "rec_create", "rec_detach", "rec_attach"}

\* C10 as stated: the error a pass returns for a failing call of the chain is the
\* call's error wrapped in a layer that names the resource.
C10_ErrorNamesResource ==
    ChainFailed =>
        /\ Len(res.err) > Len(calls[Len(calls)].err)
        /\ Head(res.err) = calls[Len(calls)].res

\* C10: the error a pass returns for a failing call of the chain is the call's
\* error as it is, with no layer added; the resource is named in the log only.
C10_ErrorReturnedAsIs ==
    ChainFailed =>
        /\ res.err = calls[Len(calls)].err
        /\ res.logged = calls[Len(calls)].res

\* a failing call on the NEG: the pass returns the bare cause, the log names the NEG
C10_NegFailure ==
    /\ ChainFailed
    /\ calls[Len(calls)].res = "NEG"
    /\ res.err \in RemoteErrs /\ res.logged = "NEG"

\* C11: a call on a managed resource is issued only while the stored workload
\* carries the finalizer; a pass that finds the finalizer present issues no update
\* for it; a pass whose update for the finalizer fails ends there, returns that
\* error and has issued no call on a managed resource.
C11_FinalizerFirst ==
    [][ /\ ( /\ calls' # calls /\ calls' # <<>>
             /\ OnManaged(calls'[Len(calls')]) ) => sts.finalizer
        /\ (pc = "finalizer" /\ sts.finalizer) => (sts' = sts /\ calls' = calls)
        /\ (pc = "finalizer" /\ ~sts.finalizer /\ ~sts'.finalizer) =>
              /\ pc' = "idle"
              /\ res'.err = calls'[Len(calls')].err /\ res'.err # NoErr
              /\ \A i \in DOMAIN calls' : ~OnManaged(calls'[i]) ]_vars

\* a pass that ended on the failed update for the finalizer
C11_FinalizerUpdateFailed ==
    /\ PassEnded /\ res.outcome = "error" /\ res.step = "finalizer"
    /\ calls[Len(calls)].res = "sts" /\ calls[Len(calls)].op = "update"
    /\ ~sts.finalizer

\* C12: whenever one of the five cloud resources exists and the workload still
\* exists, the workload carries the finalizer.
C12_FinalizerWhileResources ==
    ((\E r \in CloudRes : cloud[r]) /\ sts.exists) => sts.finalizer

\* a teardown stopped with cloud resources left: the finalizer stays
C12_TeardownIncomplete ==
    /\ pc = "idle" /\ sts.exists /\ sts.deleting /\ sts.finalizer
    /\ res.outcome = "error"
    /\ \E r \in CloudRes : cloud[r]

\* C13: a pass whose get finds no workload, or a workload without the annotation,
\* is that one call: it changes neither the workload nor any remote resource and
\* returns an empty result and no error.
C13_NoopPass ==
    [][ ( /\ pc = "idle" /\ calls' # <<>>
          /\ calls'[1].err \notin RemoteErrs
          /\ (~sts.exists \/ sts.annotation = <<>>) ) =>
            /\ pc' = "idle"
            /\ Len(calls') = 1
            /\ sts' = sts /\ RemoteState' = RemoteState
            /\ res'.requeue = 0 /\ res'.err = NoErr ]_vars

\* a pass on a workload that exists, has resources from before and lost its annotation
C13_UnannotatedNoop ==
    /\ PassEnded /\ res.outcome = "noop"
    /\ sts.exists /\ sts.annotation = <<>>
    /\ calls[1].err = NoErr

\* a consumer entry sets exactly one of its two identifiers, and a network
\* reference it sets is well-formed
ConsumerOk(c) ==
    /\ (c.NetworkFQN = <<>>) # (c.ProjectIdOrNum = <<>>)
    /\ c.NetworkFQN # <<>> => networkFQNRegexp(c.NetworkFQN[1])

\* what validation is to accept: a non-empty list of well-formed subnet references
\* and consumer entries that are in order
SpecIsValid(sp) ==
    /\ Len(sp.NatSubnetFQNs) > 0
    /\ \A i \in DOMAIN sp.NatSubnetFQNs : subnetFQNRegexp(sp.NatSubnetFQNs[i])
    /\ \A i \in DOMAIN sp.ConsumerAcceptList : ConsumerOk(sp.ConsumerAcceptList[i])

\* the pass that has just ended reached the decoding of an annotation that does not
\* decode, or decodes to a spec that fails validation
BadAnnotationPass ==
    /\ PassEnded /\ calls[1].err = NoErr
    /\ sts.annotation # <<>>
    /\ ~(res.step = "finalizer" /\ res.outcome = "error")
    /\ \/ ~sts.annotation[1].decodes
       \/ ~SpecIsValid(sts.annotation[1].spec)

Applied(fn) == arg.fn = fn /\ ret # <<>>

\* no entry of the consumer list is a nil pointer
NoNil(p) == \A i \in DOMAIN p.ConsumerAcceptList : p.ConsumerAcceptList[i] # <<>>

\* the spec with its consumer entries dereferenced
Deref(p) == [p EXCEPT !.ConsumerAcceptList = [i \in DOMAIN @ |-> @[i][1]]]

\* the violations of a spec: <<1, i, k>> for consumer entry i (from 0) with neither
\* identifier (k = 1), both (k = 2) or a malformed network reference (k = 3);
\* <<2, 0, 0>> for an empty subnet list; <<3, i, 0>> for the malformed subnet i
ViolationsOf(sp) ==
    LET cs == sp.ConsumerAcceptList
        sns == sp.NatSubnetFQNs
    IN  {<<1, i - 1, 1>> : i \in {j \in DOMAIN cs :
                cs[j].NetworkFQN = <<>> /\ cs[j].ProjectIdOrNum = <<>>}}
        \cup {<<1, i - 1, 2>> : i \in {j \in DOMAIN cs :
                cs[j].NetworkFQN # <<>> /\ cs[j].ProjectIdOrNum # <<>>}}
        \cup {<<1, i - 1, 3>> : i \in {j \in DOMAIN cs :
                cs[j].NetworkFQN # <<>> /\ ~networkFQNRegexp(cs[j].NetworkFQN[1])}}
        \cup (IF Len(sns) = 0 THEN {<<2, 0, 0>>} ELSE {})
        \cup {<<3, i - 1, 0>> : i \in {j \in DOMAIN sns : ~subnetFQNRegexp(sns[j])}}

\* the violation an error of validateSpec reports
ErrKey(e) ==
    CASE e[1] = "either network_fqn or project_id_or_num must be set" -> <<1, e[2], 1>>
      [] e[1] = "network_fqn and project_id_or_num can't both be set" -> <<1, e[2], 2>>
      [] e[1] = "invalid value for network_fqn" -> <<1, e[2], 3>>
      [] e[1] = "nat_subnet_fqns is empty" -> <<2, 0, 0>>
      [] e[1] = "invalid value for nat_subnet_fqns" -> <<3, e[2], 0>>
      [] OTHER -> <<0, 0, 0>>

KeyLess(a, b) ==
    \/ a[1] < b[1]
    \/ a[1] = b[1] /\ a[2] < b[2]
    \/ a[1] = b[1] /\ a[2] = b[2] /\ a[3] < b[3]

\* err holds one error per violation of sp, in discovery order, each naming the
\* index and the offending value
ErrorPerViolation(sp, err) ==
    /\ Len(err) = Cardinality(ViolationsOf(sp))
    /\ {ErrKey(err[k]) : k \in DOMAIN err} = ViolationsOf(sp)
    /\ \A k \in 1..(Len(err) - 1) : KeyLess(ErrKey(err[k]), ErrKey(err[k + 1]))
    /\ \A k \in DOMAIN err :
          /\ ErrKey(err[k])[3] = 3 =>
                err[k][3] = sp.ConsumerAcceptList[err[k][2] + 1].NetworkFQN[1]
          /\ ErrKey(err[k])[1] = 3 => err[k][3] = sp.NatSubnetFQNs[err[k][2] + 1]

\* C15: for every spec that is not nil, validateSpec returns one error per
\* violation, in discovery order (consumer entries by index, then the subnet
\* checks by index), each naming the index and the offending value.
C15_ErrorPerViolation ==
    Applied("validateSpec") =>
        /\ ~ret[1].panic
        /\ ErrorPerViolation(Deref(arg.spec), ret[1].err)

\* what holds of validateSpec on the specs whose consumer entries are all non-nil
ValidateAccumulates ==
    (Applied("validateSpec") /\ NoNil(arg.spec)) =>
        /\ ~ret[1].panic
        /\ ErrorPerViolation(Deref(arg.spec), ret[1].err)

\* every consumer entry sets exactly one of the two identifiers
ExactlyOneEach(sp) ==
    \A i \in DOMAIN sp.ConsumerAcceptList :
        (sp.ConsumerAcceptList[i].NetworkFQN = <<>>)
            # (sp.ConsumerAcceptList[i].ProjectIdOrNum = <<>>)

\* the subnet list is non-empty and holds well-formed references only
SubnetsOk(sp) ==
    /\ Len(sp.NatSubnetFQNs) > 0
    /\ \A i \in DOMAIN sp.NatSubnetFQNs : subnetFQNRegexp(sp.NatSubnetFQNs[i])

\* C16 as stated: validateSpec returns no error for a spec with a non-empty list of
\* well-formed subnet references whose consumer entries each set exactly one of
\* the two identifiers.
C16_ExactlyOneSuffices ==
    (Applied("validateSpec") /\ NoNil(arg.spec)
        /\ SubnetsOk(arg.spec) /\ ExactlyOneEach(Deref(arg.spec))) =>
        ret[1] = [panic |-> FALSE, err |-> <<>>]

\* C16, amended: validateSpec returns no error for a spec with a non-empty list of
\* well-formed subnet references whose consumer entries each set exactly one of the
\* two identifiers, every network reference that is set being well-formed.
C16_ValidSpecAccepted ==
    (Applied("validateSpec") /\ NoNil(arg.spec) /\ SpecIsValid(Deref(arg.spec))) =>
        ret[1] = [panic |-> FALSE, err |-> <<>>]

\* a valid spec with one consumer named by network and one named by project
C16_TwoConsumersAccepted ==
    /\ Applied("validateSpec") /\ NoNil(arg.spec) /\ SpecIsValid(Deref(arg.spec))
    /\ Len(arg.spec.NatSubnetFQNs) = 2
    /\ Len(arg.spec.ConsumerAcceptList) = 2
    /\ arg.spec.ConsumerAcceptList[1][1].NetworkFQN # <<>>
    /\ arg.spec.ConsumerAcceptList[2][1].ProjectIdOrNum # <<>>

\* the payload decodes to a spec that breaks no rule of validateSpec
PayloadValid(a) == a.decodes /\ NoNil(a.spec) /\ SpecIsValid(Deref(a.spec))

\* C17: parseSpec returns, for a payload that does not decode, a nil spec and an
\* error that starts with "couldn't decode the spec from JSON" and holds the
\* decoding error only; for a payload that decodes to an invalid spec, a nil spec
\* and an error that starts with "invalid spec"; a spec only when validation
\* passed, and then no error.
C17_ParseDistinguishes ==
    Applied("parseSpec") =>
        LET a == arg.a
            r == ret[1]
        IN  /\ ~a.decodes =>
                  r = [spec |-> <<>>, panic |-> FALSE,
                       err |-> <<"couldn't decode the spec from JSON">> \o DecodeErr]
            /\ (a.decodes /\ ~PayloadValid(a)) =>
                  /\ ~r.panic
                  /\ r.spec = <<>>
                  /\ Len(r.err) > 1 /\ Head(r.err) = "invalid spec"
                  /\ \A k \in 2..Len(r.err) : r.err[k] \notin Range(DecodeErr)
            /\ r.spec # <<>> => PayloadValid(a) /\ r.spec = <<a.spec>> /\ r.err = NoErr
            /\ PayloadValid(a) => r.spec = <<a.spec>>

\* what holds of parseSpec on the payloads whose consumer entries are all non-nil
ParseDistinguishesNonNil ==
    (Applied("parseSpec") /\ (arg.a.decodes => NoNil(arg.a.spec))) =>
        C17_ParseDistinguishes

\* a payload that decodes to a spec with an invalid subnet and a nil consumer entry
C17_NilEntryPayload ==
    /\ Applied("parseSpec") /\ arg.a.decodes
    /\ arg.a.spec.ConsumerAcceptList = <<<<>>>>
    /\ arg.a.spec.NatSubnetFQNs = <<BadSubnet>>
    /\ ret[1].panic

\* a payload that decodes to a spec with two violations
C17_InvalidPayload ==
    /\ Applied("parseSpec") /\ arg.a.decodes
    /\ ret[1].spec = <<>> /\ Len(ret[1].err) = 3 /\ Head(ret[1].err) = "invalid spec"

\* the spec with the connection limit of every consumer entry set to l
WithLimits(p, l) ==
    [p EXCEPT !.ConsumerAcceptList =
        [i \in DOMAIN @ |->
            IF @[i] = <<>> THEN <<>> ELSE <<[@[i][1] EXCEPT !.ConnectionLimit = l]>>]]

\* C18: the result of validateSpec does not depend on the connection limits of the
\* consumer entries, zero or not; and for an empty consumer list it holds errors
\* about the subnets only.
C18_LimitAndEmptyListIgnored ==
    Applied("validateSpec") =>
        /\ \A l \in {0, 10} : validateSpecCall(WithLimits(arg.spec, l)) = ret[1]
        /\ arg.spec.ConsumerAcceptList = <<>> =>
              /\ ~ret[1].panic
              /\ \A k \in DOMAIN ret[1].err : ErrKey(ret[1].err[k])[1] \in {2, 3}
              /\ ret[1].err = <<>> <=>
                    /\ Len(arg.spec.NatSubnetFQNs) > 0
                    /\ \A i \in DOMAIN arg.spec.NatSubnetFQNs :
                          subnetFQNRegexp(arg.spec.NatSubnetFQNs[i])

\* a consumer named by project with no connection limit: no error
C18_LimitNotSet ==
    /\ Applied("validateSpec")
    /\ arg.spec.NatSubnetFQNs = <<GoodSubnet>>
    /\ arg.spec.ConsumerAcceptList =
          <<<<[NetworkFQN |-> <<>>, ProjectIdOrNum |-> <<"project1">>,
               ConnectionLimit |-> 0]>>>>
    /\ ret[1].err = <<>>

\* the two mappings have the same (Port, Instance, InstancePort) triple
SameTriple(a, b) ==
    a.Port = b.Port /\ a.Instance = b.Instance /\ a.InstancePort = b.InstancePort

\* the indices of actual whose triple is absent from expected
AbsentFrom(expected, actual) ==
    {i \in DOMAIN actual : \A j \in DOMAIN expected : ~SameTriple(actual[i], expected[j])}

\* C19: getObsoletePortMappings(expected, actual) returns exactly the elements of
\* actual whose (Port, Instance, InstancePort) triple is absent from expected, in
\* the order of actual; it is empty when every element of actual is in expected,
\* all of actual when the two are disjoint, and empty for (x, x).
C19_ObsoleteIsDifference ==
    Applied("getObsoletePortMappings") =>
        LET r == ret[1]
            keep == AbsentFrom(arg.expected, arg.actual)
        IN  /\ Len(r) = Cardinality(keep)
            /\ \E f \in [DOMAIN r -> keep] :
                  /\ \A k \in DOMAIN r : r[k] = arg.actual[f[k]]
                  /\ \A k \in DOMAIN r : \A l \in DOMAIN r : k < l => f[k] < f[l]
            /\ Range(arg.actual) \subseteq Range(arg.expected) => r = <<>>
            /\ Range(arg.actual) \cap Range(arg.expected) = {} => r = arg.actual
            /\ arg.expected = arg.actual => r = <<>>

\* the second of two actual mappings is obsolete although expected holds a mapping
\* with its port, and the first is expected
C19_SamePortOtherInstance ==
    /\ Applied("getObsoletePortMappings")
    /\ Len(arg.actual) = 2 /\ Len(arg.expected) = 2
    /\ ret[1] = <<arg.actual[2]>>
    /\ \E j \in DOMAIN arg.expected :
          /\ arg.expected[j].Port = arg.actual[2].Port
          /\ arg.expected[j].Instance # arg.actual[2].Instance

\* every pod is scheduled on a node whose provider ID names an instance
AllResolvable(ps) == \A i \in DOMAIN ps : ps[i] \in {"n0", "n1"}

\* the mapping of the replica at list index i (from 0) on node name for port p
MappingFor(p, i, name) ==
    [Port |-> p.StartingPort + i,
     Instance |-> <<"projects", "p", "zones", "z", "instances", name>>,
     InstancePort |-> p.NodePort]

\* C20: for n scheduled replicas with resolvable host nodes and a spec with m named
\* ports, getPortMappings returns exactly n*m mappings, one per replica at list
\* index i and named port p, with Port = p.StartingPort + i, Instance = the
\* instance reference of the replica's node and InstancePort = p.NodePort; the
\* external ports of each named port are StartingPort .. StartingPort + n - 1.
C20_MappingPerReplicaAndPort ==
    (Applied("getPortMappings") /\ AllResolvable(arg.pods)) =>
        LET r == ret[1]
            n == Len(arg.pods)
            np == arg.spec.NodePorts
            m == Len(np)
        IN  /\ ~r.panic /\ r.err = NoErr
            /\ Len(r.val) = n * m
            /\ Cardinality(Range(r.val)) = n * m
            /\ Range(r.val) =
                  {MappingFor(np[j], i - 1, arg.pods[i]) : i \in 1..n, j \in 1..m}
            /\ \A j \in 1..m :
                  {r.val[k].Port : k \in {l \in DOMAIN r.val :
                                              r.val[l].InstancePort = np[j].NodePort}}
                      = np[j].StartingPort .. (np[j].StartingPort + n - 1)

\* two replicas on two nodes and two named ports: four mappings
C20_TwoByTwo ==
    /\ Applied("getPortMappings")
    /\ arg.pods = <<"n0", "n1">>
    /\ Len(arg.spec.NodePorts) = 2
    /\ Len(ret[1].val) = 4

(***************************************************************************)
(* Properties of the passes: replicas, firewall, endpoints, teardown.      *)
(***************************************************************************)
\* the positions of a pass after getPortMappings returned its mappings
InChain == pc \in {"rec_get", "rec_update", "rec_create", "rec_detach", "rec_attach"}

\* C21: replicas with no host node assigned are skipped: the pass does not crash
\* because of them, the node map holds the nodes of the scheduled replicas only,
\* and the mappings computed are those of the scheduled replicas.
C21_UnscheduledSkipped ==
    /\ res.outcome # "panic"
    /\ pc = "port_mappings" => nodes = {pods[i] : i \in Scheduled(pods)}
    /\ InChain =>
          Len(mappings) = Cardinality(Scheduled(pods)) * Len(spec.NodePorts)

\* the strings of the desired ports
DesiredStrs(ports) == {Itoa(p) : p \in ports}

\* fw is not nil, has one allow rule, the rule is for tcp and its ports, each
\* taken as often as it occurs, are the desired ports
FirewallUpToDate(fw, ports) ==
    /\ fw # <<>>
    /\ Len(fw[1].Allowed) = 1
    /\ fw[1].Allowed[1] # <<>>
    /\ fw[1].Allowed[1][1].IPProtocol = <<"tcp">>
    /\ LET ps == fw[1].Allowed[1][1].Ports IN
          /\ Range(ps) = DesiredStrs(ports)
          /\ Len(ps) = Cardinality(Range(ps))

\* C22: FirewallNeedsUpdate(fw, desiredPorts) returns false exactly when fw is not
\* nil, has exactly one allow rule, the rule's protocol is tcp and the rule's ports
\* as a multiset of strings equal the desired port set; it returns true in every
\* other case.
C22_NeedsUpdateExact ==
    Applied("FirewallNeedsUpdate") =>
        (ret[1] = FALSE <=> FirewallUpToDate(arg.fw, arg.expectedPorts))

\* what holds of FirewallNeedsUpdate: it returns false exactly when fw is not nil,
\* has one allow rule for tcp with at least one port, as many ports as are
\* desired, and every one of them desired
NeedsUpdateAsCoded ==
    Applied("FirewallNeedsUpdate") =>
        (ret[1] = FALSE <=>
            /\ arg.fw # <<>>
            /\ Len(arg.fw[1].Allowed) = 1
            /\ arg.fw[1].Allowed[1] # <<>>
            /\ arg.fw[1].Allowed[1][1].IPProtocol = <<"tcp">>
            /\ LET ps == arg.fw[1].Allowed[1][1].Ports IN
                  /\ Len(ps) > 0
                  /\ Len(ps) = Cardinality(arg.expectedPorts)
                  /\ Range(ps) \subseteq DesiredStrs(arg.expectedPorts))

\* a rule that repeats one desired port and lacks the other is found up to date
C22_DuplicatedPort ==
    /\ Applied("FirewallNeedsUpdate")
    /\ arg.expectedPorts = {PortA.NodePort, PortB.NodePort}
    /\ arg.fw = <<[Allowed |-> << <<[IPProtocol |-> <<"tcp">>,
                     Ports |-> <<Itoa(PortA.NodePort), Itoa(PortA.NodePort)>>]>> >>]>>
    /\ ret[1] = FALSE

\* C23: reconcileFirewall issues no update and no create when the firewall exists
\* and is up to date; one update with the full desired port set and no create when
\* it exists and is stale; one create and no update when the get returns NotFound;
\* neither when the get fails otherwise.  The desired ports are the node ports of
\* the spec's named ports.
C23_FirewallCalls ==
    [][ LET c == calls'[Len(calls')]
                ports == nodePortSet(spec)
                up == FirewallUpToDate(<<[Allowed |-> fwAllowed]>>, ports)
                done == (pc' = "rec_get" /\ idx' = 2) \/ pc' = "idle"
            IN  /\ (pc = "rec_get" /\ idx = 1) =>
                      /\ Len(calls') = Len(calls) + 1
                      /\ c.res = "firewall" /\ c.op = "get"
                      /\ c.err = NoErr => cloud["firewall"]
                      /\ (c.err = NoErr /\ up) => pc' = "rec_get" /\ idx' = 2
                      /\ (c.err = NoErr /\ ~up) => pc' = "rec_update" /\ idx' = 1
                      /\ c.err = ErrNotFound => pc' = "rec_create" /\ idx' = 1
                      /\ c.err \notin {NoErr, ErrNotFound} => pc' = "idle" /\ res'.err = c.err
                /\ (pc = "rec_update" /\ idx = 1) =>
                      /\ Len(calls') = Len(calls) + 1
                      /\ c.res = "firewall" /\ c.op = "update" /\ c.ports = ports
                      /\ done
                /\ (pc = "rec_create" /\ idx = 1) =>
                      /\ Len(calls') = Len(calls) + 1
                      /\ c.res = "firewall" /\ c.op = "create" /\ c.ports = ports
                      /\ done
                /\ (Len(calls') = Len(calls) + 1 /\ c.res = "firewall"
                        /\ c.op \in {"update", "create"}) =>
                      /\ idx = 1
                      /\ pc = (IF c.op = "update" THEN "rec_update" ELSE "rec_create") ]_vars

\* what holds of reconcileFirewall: the same, for the specs that name a port
FirewallCallsWithPorts ==
    [][ nodePortSet(spec) # {} =>
        LET c == calls'[Len(calls')]
                ports == nodePortSet(spec)
                up == FirewallUpToDate(<<[Allowed |-> fwAllowed]>>, ports)
                done == (pc' = "rec_get" /\ idx' = 2) \/ pc' = "idle"
            IN  /\ (pc = "rec_get" /\ idx = 1) =>
                      /\ Len(calls') = Len(calls) + 1
                      /\ c.res = "firewall" /\ c.op = "get"
                      /\ c.err = NoErr => cloud["firewall"]
                      /\ (c.err = NoErr /\ up) => pc' = "rec_get" /\ idx' = 2
                      /\ (c.err = NoErr /\ ~up) => pc' = "rec_update" /\ idx' = 1
                      /\ c.err = ErrNotFound => pc' = "rec_create" /\ idx' = 1
                      /\ c.err \notin {NoErr, ErrNotFound} => pc' = "idle" /\ res'.err = c.err
                /\ (pc = "rec_update" /\ idx = 1) =>
                      /\ Len(calls') = Len(calls) + 1
                      /\ c.res = "firewall" /\ c.op = "update" /\ c.ports = ports
                      /\ done
                /\ (pc = "rec_create" /\ idx = 1) =>
                      /\ Len(calls') = Len(calls) + 1
                      /\ c.res = "firewall" /\ c.op = "create" /\ c.ports = ports
                      /\ done
                /\ (Len(calls') = Len(calls) + 1 /\ c.res = "firewall"
                        /\ c.op \in {"update", "create"}) =>
                      /\ idx = 1
                      /\ pc = (IF c.op = "update" THEN "rec_update" ELSE "rec_create") ]_vars

\* a pass has just got a firewall that allows no port, for a spec that names none,
\* and goes on to update it
C23_UpdateOfEmptyFirewall ==
    /\ pc = "rec_update" /\ idx = 1
    /\ nodePortSet(spec) = {}
    /\ cloud["firewall"] /\ fwAllowed = firewallAllowed({})
    /\ calls[Len(calls)] = Call("firewall", "get", NoErr, {}, {})

\* C24: no managed resource dangles: in every reachable state the service
\* attachment exists only if the forwarding rule does, the forwarding rule only if
\* the backend does, and the backend only if the NEG does.
C24_NoDangling ==
    /\ cloud["service attachment"] => cloud["forwarding rule"]
    /\ cloud["forwarding rule"] => cloud["backend"]
    /\ cloud["backend"] => cloud["NEG"]

\* a teardown deleted the service attachment and the forwarding rule and stopped at
\* the backend, whose delete failed
C24_TeardownStoppedAtBackend ==
    /\ pc = "idle" /\ res.outcome = "error" /\ res.logged = "backend"
    /\ \E i \in DOMAIN calls :
          /\ calls[i] = Call("forwarding rule", "delete", NoErr, {}, {})
          /\ \E j \in 1..(i - 1) : calls[j] = Call("service attachment", "delete", NoErr, {}, {})
    /\ cloud["backend"] /\ cloud["NEG"]
    /\ ~cloud["forwarding rule"] /\ ~cloud["service attachment"]

\* the object is a StatefulSet that carries the spec annotation key
AnnotatedStatefulSet(o) ==
    /\ o.type = "StatefulSet"
    /\ \E k \in DOMAIN o.Annotations : k = "psc-portmapper.0x5d.org/spec"

\* C25: the change-trigger filter accepts an event exactly when its object is a
\* StatefulSet whose annotations contain the spec annotation key, whatever the
\* value; it rejects objects of another type and StatefulSets without the key, for
\* create, update, delete and generic events alike.
C25_FilterByAnnotation ==
    Applied("isAnnotated") =>
        /\ arg.e.kind \in {"create", "delete", "generic"} =>
              ret[1] = AnnotatedStatefulSet(arg.e.Object)
        /\ arg.e.kind = "update" => ret[1] = AnnotatedStatefulSet(arg.e.ObjectNew)

\* a delete event for a StatefulSet that carries the key with an empty value, next
\* to another annotation, is accepted
C25_EmptyValueAccepted ==
    /\ Applied("isAnnotated")
    /\ arg.e.kind = "delete"
    /\ arg.e.Object.type = "StatefulSet"
    /\ DOMAIN arg.e.Object.Annotations = {annotation, "kubernetes.io/hostname"}
    /\ arg.e.Object.Annotations[annotation] = ""
    /\ ret[1] = TRUE

IsAttach(c) == c.op = "attach"

IsDetach(c) == c.op = "detach"

\* C26: when reconcileEndpoints returns without error the endpoints attached to the
\* NEG are exactly the desired mappings; the detach call is issued only when some
\* attached endpoint is not desired, carries exactly the attached endpoints that
\* are not desired, and precedes the attach call of the pass.
C26_EndpointsConverge ==
    [][ LET c == calls'[Len(calls')]
            desired == Range(mappings)
            issued == Len(calls') = Len(calls) + 1
        IN  /\ (pc = "rec_get" /\ reconcilers[idx] = "endpoints" /\ pc' # "idle") =>
                  /\ pc' \in {"rec_detach", "rec_attach"}
                  /\ (pc' = "rec_detach") = (endpoints \ desired # {})
                  /\ endpoints' = endpoints
            /\ pc = "rec_detach" =>
                  /\ issued /\ IsDetach(c)
                  /\ c.eps = endpoints \ desired /\ c.eps # {}
                  /\ c.err = NoErr => endpoints' = endpoints \ c.eps /\ pc' = "rec_attach"
                  /\ c.err # NoErr => endpoints' = endpoints /\ pc' = "idle"
            /\ pc = "rec_attach" =>
                  /\ issued /\ IsAttach(c)
                  /\ c.eps = desired
                  /\ c.err = NoErr => endpoints' = desired
                  /\ c.err # NoErr => endpoints' = endpoints /\ pc' = "idle"
            /\ (issued /\ IsDetach(c)) => pc = "rec_detach"
            /\ (issued /\ IsAttach(c)) => pc = "rec_attach"
            /\ \A i \in DOMAIN calls' : \A j \in DOMAIN calls' :
                  (IsAttach(calls'[i]) /\ IsDetach(calls'[j])) => j < i
            /\ (\E i \in DOMAIN calls' : IsAttach(calls'[i]) /\ calls'[i].err = NoErr) =>
                  endpoints' = Range(mappings') ]_vars

\* a pass detached an obsolete endpoint, attached the desired ones and succeeded
C26_DetachedThenAttached ==
    /\ pc = "idle" /\ res.outcome = "ok"
    /\ \E i \in DOMAIN calls : \E j \in DOMAIN calls :
          /\ i < j
          /\ IsDetach(calls[i]) /\ calls[i].err = NoErr /\ calls[i].eps # {}
          /\ IsAttach(calls[j]) /\ calls[j].err = NoErr /\ calls[j].eps # {}
          /\ calls[i].eps \cap calls[j].eps = {}
    /\ endpoints = Range(mappings)

\* no two mappings of S share the external port
DistinctPorts(S) == \A a \in S : \A b \in S : a.Port = b.Port => a = b

\* C27: at every point of every pass, for every spec validation accepts and every
\* pod listing, the desired mappings have pairwise distinct external ports, and no
\* two endpoints attached to the NEG, or requested in an attach call, share the
\* external port.
C27_DistinctExternalPorts ==
    /\ \A i \in DOMAIN mappings : \A j \in DOMAIN mappings :
          mappings[i].Port = mappings[j].Port => i = j
    /\ \A i \in DOMAIN calls : IsAttach(calls[i]) => DistinctPorts(calls[i].eps)
    /\ DistinctPorts(endpoints)

\* what holds of the desired mappings: those of one named port have pairwise
\* distinct external ports
DistinctPortsPerNamedPort ==
    \A i \in DOMAIN mappings : \A j \in DOMAIN mappings :
        ( /\ mappings[i].Port = mappings[j].Port
          /\ mappings[i].InstancePort = mappings[j].InstancePort ) => i = j

\* the resources that are created once and never updated
CreateOnce == {"NEG", "backend", "forwarding rule", "service attachment"}

\* C28: the NEG, the backend, the forwarding rule and the service attachment are
\* reconciled by existence only: after a successful get no create and no update is
\* issued for the resource; after a get that returns NotFound exactly one create
\* is issued; after a get that fails otherwise no create is issued and the pass
\* returns the error; the NotFound of a get is never the error of a pass.
C28_CreateOnce ==
    [][ LET c == calls'[Len(calls')]
            r == reconcilers[idx]
            issued == Len(calls') = Len(calls) + 1
            finished == \/ pc' = "rec_get" /\ idx' = idx + 1
                        \/ pc' = "idle" /\ idx = Len(reconcilers) /\ res'.outcome = "ok"
        IN  /\ (pc = "rec_get" /\ r \in CreateOnce) =>
                  /\ issued /\ c.res = r /\ c.op = "get"
                  /\ c.err = NoErr => finished /\ cloud' = cloud
                  /\ c.err = ErrNotFound => pc' = "rec_create" /\ idx' = idx
                  /\ c.err \notin {NoErr, ErrNotFound} =>
                        pc' = "idle" /\ res'.err = c.err /\ cloud' = cloud
                  /\ pc' = "idle" => ~ErrorsIs(res'.err, ErrNotFound)
            /\ (pc = "rec_create" /\ r \in CreateOnce) =>
                  /\ issued /\ c.res = r /\ c.op = "create"
                  /\ c.err = NoErr => finished /\ cloud'[r]
                  /\ c.err # NoErr => pc' = "idle" /\ res'.err = c.err /\ cloud' = cloud
            /\ (issued /\ c.res \in CreateOnce) =>
                  /\ c.op \in {"get", "create", "delete"}
                  /\ c.op = "create" =>
                        /\ pc = "rec_create" /\ r = c.res
                        /\ calls[Len(calls)] = Call(r, "get", ErrNotFound, {}, {})
            /\ \A i \in DOMAIN calls' : \A j \in DOMAIN calls' :
                  ( /\ calls'[i].res \in CreateOnce /\ calls'[i].op = "create"
                    /\ calls'[j].res = calls'[i].res /\ calls'[j].op = "create" ) => i = j
      ]_vars

\* a pass found the NEG in place and the backend missing, did not create the one,
\* created the other, and succeeded
C28_FoundOneCreatedOther ==
    /\ pc = "idle" /\ res.outcome = "ok"
    /\ \E i \in DOMAIN calls : calls[i] = Call("NEG", "get", NoErr, {}, {})
    /\ \A i \in DOMAIN calls : ~(calls[i].res = "NEG" /\ calls[i].op = "create")
    /\ \E i \in DOMAIN calls :
          /\ calls[i] = Call("backend", "get", ErrNotFound, {}, {})
          /\ calls[i + 1] = Call("backend", "create", NoErr, {}, {})

\* the call failed with an error other than NotFound
FailedHard(c) == c.err # NoErr /\ ~ErrorsIs(c.err, ErrNotFound)

\* C29: when the delete call of one of the five cloud resources fails with an error
\* other than NotFound, the pass stops there: it issues no further call, does not
\* remove the finalizer, and returns that error with a requeue after the fixed
\* delay; the resources deleted earlier in the pass stay deleted.
C29_DeleteFailureStops ==
    [][ /\ pc = "delete" =>
              LET c == calls'[Len(calls')] IN
              /\ Len(calls') = Len(calls) + 1
              /\ c.res = deleters[idx] /\ c.op = "delete"
              /\ FailedHard(c) =>
                    /\ pc' = "idle"
                    /\ res'.err = c.err /\ res'.requeue = RequeueDelay
                    /\ sts' = sts /\ sts.finalizer
                    /\ cloud' = cloud
        /\ \A i \in DOMAIN calls' :
              (IsCloudDelete(calls'[i]) /\ FailedHard(calls'[i])) =>
                  /\ i = Len(calls')
                  /\ pc' = "idle" /\ sts'.finalizer
                  /\ res'.err = calls'[i].err /\ res'.requeue = RequeueDelay
                  /\ \A j \in 1..(i - 1) :
                        (IsCloudDelete(calls'[j]) /\ calls'[j].err = NoErr) =>
                            ~cloud'[calls'[j].res]
      ]_vars

\* a teardown deleted the backend and stopped at the NEG, whose delete failed
C29_StoppedAtNEG ==
    /\ pc = "idle" /\ res.outcome = "error" /\ res.logged = "NEG"
    /\ res.requeue = RequeueDelay /\ res.err \in RemoteErrs
    /\ calls[Len(calls)].res = "NEG" /\ calls[Len(calls)].op = "delete"
    /\ \E i \in DOMAIN calls : calls[i] = Call("backend", "delete", NoErr, {}, {})
    /\ sts.finalizer
    /\ ~cloud["backend"] /\ cloud["NEG"] /\ cloud["firewall"]

IsNodePortDelete(c) == c.res = "nodeport" /\ c.op = "delete"

\* C30: the delete of the exposure service is best-effort: whatever error it
\* returns, NotFound included, the teardown goes on to the five cloud deletes in
\* order; if each of them succeeds or returns NotFound (and the update that removes
\* the finalizer does not fail) the finalizer is removed and the pass returns no
\* error.
C30_NodePortDeleteBestEffort ==
    [][ /\ pc = "delete_nodeport" =>
              /\ Len(calls') = Len(calls) + 1
              /\ IsNodePortDelete(calls'[Len(calls')])
              /\ pc' = "delete" /\ idx' = 1 /\ res' = res
        /\ \A k \in DOMAIN calls' :
              (IsNodePortDelete(calls'[k]) /\ calls'[k].err # NoErr) =>
                  LET d == SelectSeq(calls', IsCloudDelete) IN
                  /\ Len(d) <= Len(deleters)
                  /\ \A i \in DOMAIN d : d[i].res = deleters[i]
                  /\ pc' = "idle" => Len(d) >= 1
                  /\ ( /\ pc' = "idle"
                       /\ \A i \in DOMAIN d : d[i].err \in {NoErr, ErrNotFound}
                       /\ \A i \in DOMAIN calls' :
                             (calls'[i].res = "sts" /\ calls'[i].op = "update") =>
                                 calls'[i].err = NoErr )
                     => /\ Len(d) = Len(deleters)
                        /\ ~sts'.finalizer
                        /\ res'.err = NoErr /\ res'.outcome = "deleted"
      ]_vars

\* a teardown whose delete of the exposure service failed, and which deleted the
\* five cloud resources and removed the finalizer
C30_NodePortDeleteFailed ==
    /\ pc = "idle" /\ res.outcome = "deleted" /\ res.err = NoErr
    /\ ~sts.finalizer
    /\ \E k \in DOMAIN calls : IsNodePortDelete(calls[k]) /\ calls[k].err \in RemoteErrs
    /\ svc # <<>>
    /\ LET d == SelectSeq(calls, IsCloudDelete) IN
          Len(d) = 5 /\ \A i \in DOMAIN d : d[i].err = NoErr

\* a teardown that found the exposure service gone
C30_NodePortNotFound ==
    /\ pc = "idle" /\ res.outcome = "deleted" /\ ~sts.finalizer
    /\ \E k \in DOMAIN calls : IsNodePortDelete(calls[k]) /\ calls[k].err = ErrNotFound

(***************************************************************************)
(* Properties of node resolution, convergence and naming.                  *)
(***************************************************************************)
IsNodeLookup(c) == c.res = "nodes" /\ c.op = "get"

\* C31: node resolution is all-or-nothing: if the lookup of the node of a scheduled
\* replica fails, getNodes returns the error and no node map, and the pass returns
\* the error without computing port mappings and without a call on a cloud
\* resource; if all lookups succeed the map holds exactly the distinct nodes of the
\* scheduled replicas.
C31_NodesAllOrNothing ==
    [][ /\ pc = "get_nodes" =>
              LET c == calls'[Len(calls')] IN
              /\ Len(calls') = Len(calls) + 1 /\ IsNodeLookup(c)
              /\ c.err # NoErr =>
                    /\ nodes' = {} /\ mappings' = <<>>
                    /\ pc' = "idle" /\ res'.err = c.err /\ res'.outcome = "error"
                    /\ \E i \in DOMAIN pods : pods[i] # "" /\ c.err[2] = pods[i]
              /\ c.err = NoErr =>
                    /\ pc' = "port_mappings"
                    /\ nodes' = {pods[i] : i \in {j \in DOMAIN pods : pods[j] # ""}}
        /\ \A k \in DOMAIN calls' :
              (IsNodeLookup(calls'[k]) /\ calls'[k].err # NoErr) =>
                  /\ k = Len(calls')
                  /\ \A j \in DOMAIN calls' : calls'[j].res \notin CloudRes \cup {"endpoints"}
                  /\ nodes' = {} /\ mappings' = <<>>
      ]_vars

\* a pass over two replicas scheduled on different nodes ended at a failed lookup
C31_OneLookupFailed ==
    /\ pc = "idle" /\ res.outcome = "error" /\ res.requeue = RequeueDelay
    /\ IsNodeLookup(calls[Len(calls)])
    /\ res.err = calls[Len(calls)].err /\ res.err # NoErr
    /\ pods = <<"n0", "n1">>

\* the goroutines getNodes starts: those of the pods with a node name
LookupTasks == {i \in DOMAIN gn.pods : gn.pods[i] # ""}

\* no goroutine waits to send, no send hits the closed channel, the channel never
\* holds more than the nodes of the lookups that succeeded, and the result is the
\* one the pods and the failing lookups determine
FanOutSafe ==
    /\ ~gn.panic
    /\ \A i \in DOMAIN gn.task :
          gn.task[i] = "send" => ~gn.closed /\ Len(gn.ch) < Len(gn.pods)
    /\ Len(gn.ch) <= Cardinality(LookupTasks \ gn.fails)
    /\ gn.closed => \A i \in DOMAIN gn.task : gn.task[i] \in {"none", "done"}
    /\ gn.main = "done" =>
          /\ gn.fails = {} => gn.ch = <<>>
          /\ gn.out =
                IF gn.fails = {}
                THEN <<[nodes |-> <<{gn.pods[i] : i \in LookupTasks}>>, err |-> NoErr]>>
                ELSE <<[nodes |-> <<>>, err |-> gn.out[1].err]>>
          /\ gn.fails # {} =>
                \E i \in gn.fails :
                    gn.out[1].err = <<"failed to get node", gn.pods[i]>>
                                        \o (CHOOSE e \in RemoteErrs : TRUE)

\* C32: the fan-out of getNodes is free of deadlock and independent of the
\* interleaving: no lookup goroutine waits forever to send (the buffer has room for
\* every goroutine), nothing is sent after the close, wg.Wait returns, the drain
\* loop ends, and getNodes returns the node map of the scheduled pods, or no map
\* and an error exactly when some lookup fails.
C32_FanOutTerminates ==
    /\ []FanOutSafe
    /\ <>(gn.main = "done")

\* wg.Wait returned and the channel was closed with the nodes of two pods in it,
\* sent in the order opposite to the order the lookups were started in
C32_TwoNodesAnyOrder ==
    /\ gn.main = "drain"
    /\ gn.closed
    /\ gn.pods = <<"n0", "n1">>
    /\ gn.ch = <<"n1", "n0">>

\* the workload is live and its annotation holds a valid spec
LiveValid ==
    /\ sts.exists /\ ~sts.deleting
    /\ sts.annotation # <<>>
    /\ sts.annotation[1].decodes
    /\ validateSpec(sts.annotation[1].spec) = <<>>

\* the mappings of the workload's scheduled replicas
DesiredMappings ==
    UNION {{MappingFor(sts.annotation[1].spec.NodePorts[j], i - 1, pods[i]) :
               j \in DOMAIN sts.annotation[1].spec.NodePorts} : i \in Scheduled(pods)}

\* the last pass succeeded and left all six resources, the firewall with the
\* desired node ports and the NEG with the desired mappings
Converged ==
    /\ pc = "idle"
    /\ res.outcome = "ok"
    /\ svc # <<>>
    /\ \A r \in CloudRes : cloud[r]
    /\ fwAllowed = firewallAllowed(nodePortSet(sts.annotation[1].spec))
    /\ endpoints = DesiredMappings

\* every scheduled replica runs on a node whose provider ID fqInstaceName parses
NodesParse ==
    \A i \in Scheduled(pods) : fqInstaceName(Nodes[pods[i]].ProviderID).err = NoErr

Steady == LiveValid /\ NodesParse

\* C33: a live workload with a valid spec converges: when passes are run again
\* after failures and the remote calls succeed from some point on, then, unless
\* the workload, its replicas or their nodes change, a pass succeeds completely
\* and leaves all six resources, the firewall with exactly the desired node ports
\* and the NEG with exactly the desired mappings of the scheduled replicas.  The
\* nodes are taken to have provider IDs of the form gce://project/zone/name.
C33_LiveConverges == Steady ~> (Converged \/ ~Steady)

\* a live workload with a valid spec that names a port and a replica that is not
\* scheduled: the pass ended in the panic of getPortMappings
C33_PanicOnPending ==
    /\ Steady
    /\ pc = "idle"
    /\ res.outcome = "panic"

\* the claim without the premise on the provider IDs
AnyNodeConverges == LiveValid ~> (Converged \/ ~LiveValid)

\* the claim for a workload whose replicas are all scheduled
AllOnGCE == LiveValid /\ AllResolvable(pods)

ResolvableConverges == AllOnGCE ~> (Converged \/ ~AllOnGCE)

\* the workload is marked for deletion and carries the finalizer
Doomed == sts.exists /\ sts.deleting /\ sts.finalizer

\* the five cloud resources are gone and the finalizer is removed
TornDown ==
    /\ ~sts.finalizer
    /\ \A r \in CloudRes : ~cloud[r]

\* C34: the teardown completes: for a workload that carries the finalizer and is
\* marked for deletion, when passes are run again after failures and the remote
\* calls succeed from some point on, the five cloud resources end up absent and
\* the finalizer removed, whatever its annotation is at that time: present or
\* removed, valid or invalid.
C34_TeardownCompletes == Doomed ~> TornDown

\* a workload with the finalizer whose annotation was removed before it was
\* marked for deletion: the pass returned at the annotation lookup
C34_StuckUnannotated ==
    /\ Doomed
    /\ sts.annotation = <<>>
    /\ pc = "idle"
    /\ res.outcome = "noop"

\* the annotation is present, decodes and is valid
AnnotationValid ==
    /\ sts.annotation # <<>>
    /\ sts.annotation[1].decodes
    /\ validateSpec(sts.annotation[1].spec) = <<>>

\* the teardown completes for as long as the annotation is present and valid
ValidTeardownCompletes ==
    (Doomed /\ AnnotationValid) ~> (TornDown \/ ~AnnotationValid)

\* the teardown never completes without it: a workload that is marked for deletion
\* with the finalizer and without a valid annotation keeps the finalizer
StuckWithoutValidAnnotation ==
    [][Doomed /\ ~AnnotationValid /\ UNCHANGED sts.annotation => Doomed']_vars

\* the provider ID has the form gce://<project>/<zone>/<name>, three segments that
\* are not empty and hold no slash
HasGCEForm(id) ==
    /\ id.scheme = "gce"
    /\ Len(id.segs) = 3
    /\ id.segs[1] # "" /\ id.segs[2] # "" /\ id.segs[3] # ""

\* projects/<project>/zones/<zone>/instances/<name>
InstanceRef(id) ==
    <<"projects", id.segs[1], "zones", id.segs[2], "instances", id.segs[3]>>

\* some scheduled replica runs on a node whose provider ID has not that form
SomeMalformed ==
    \E i \in Scheduled(pods) : ~HasGCEForm(Nodes[pods[i]].ProviderID)

IsCloudCall(c) == c.res \in CloudRes \cup {"endpoints"}

\* the step fails with the error of fqInstaceName and the requeue delay, in a pass
\* that issued no call on a cloud resource
FailsOnProviderID ==
    /\ pc' = "idle"
    /\ res'.outcome = "error"
    /\ res'.err = <<"invalid provider ID format">>
    /\ res'.requeue = RequeueDelay
    /\ \A k \in DOMAIN calls' : ~IsCloudCall(calls'[k])

\* the step yields mappings whose instance references are those of the replicas'
\* nodes
YieldsInstanceRefs ==
    pc' = "rec_get" =>
        \A k \in DOMAIN mappings' :
            LET i == ((k - 1) \div Len(spec.NodePorts)) + 1
            IN  mappings'[k].Instance = InstanceRef(Nodes[pods[i]].ProviderID)

\* C35: when the node of some scheduled replica has a provider ID that is not of
\* the form gce://<project>/<zone>/<name>, the computation of the port mappings
\* fails, the pass returns the error with the requeue delay and has issued no call
\* on a cloud resource; otherwise every instance reference is
\* projects/<project>/zones/<zone>/instances/<name>.
C35_MalformedProviderID ==
    [][pc = "port_mappings" =>
          IF SomeMalformed THEN FailsOnProviderID ELSE YieldsInstanceRefs]_vars

\* a pass went past getPortMappings and called the cloud although a replica runs
\* on a node with a malformed provider ID: the spec names no port
C35_MalformedUnnoticed ==
    /\ SomeMalformed
    /\ pc = "idle"
    /\ \E k \in DOMAIN calls : IsCloudCall(calls[k])

\* the claim holds when the spec names a port and every replica is scheduled
MalformedFailsWhenLookedAt ==
    [][/\ pc = "port_mappings"
       /\ spec.NodePorts # <<>>
       /\ Scheduled(pods) = DOMAIN pods
       => IF SomeMalformed THEN FailsOnProviderID ELSE YieldsInstanceRefs]_vars

\* what the code does: the provider ID is parsed when a mapping is built from it,
\* for each replica in list order and only if the spec names a port; the pass
\* panics at the first replica that is not scheduled and fails at the first whose
\* provider ID is malformed, whichever comes first
ProviderIDAsCoded ==
    [][pc = "port_mappings" =>
          LET Stops(i) == pods[i] = "" \/ ~HasGCEForm(Nodes[pods[i]].ProviderID)
              stops == {i \in DOMAIN pods : spec.NodePorts # <<>> /\ Stops(i)}
              first == CHOOSE i \in stops : \A j \in stops : i <= j
          IN  IF stops = {} THEN pc' = "rec_get" /\ YieldsInstanceRefs
              ELSE IF pods[first] = "" THEN res'.outcome = "panic"
              ELSE FailsOnProviderID]_vars

\* C36: the passes of two workloads never act on the same named resource: no
\* resource is created, updated, attached to, detached from or deleted by the
\* passes of both, so that the create or the delete path of one workload leaves
\* the resources of the other alone.
C36_NoSharedResource ==
    \A v \in Workloads, w \in Workloads :
        v # w => fleet.acted[v] \cap fleet.acted[w] = {}

\* workload v is live and a pass on it succeeded, and the teardown of workload w
\* has deleted the firewall that serves v
C36_ForeignTeardown ==
    \E v \in Workloads, w \in Workloads :
        /\ v # w
        /\ fleet.done[v] /\ ~fleet.deleting[v] /\ fleet.path[v] = "none"
        /\ fleet.gone[w]
        /\ cloudTarget("firewall", fleet.prefix[v]) \notin fleet.exists
        /\ cloudTarget("firewall", fleet.prefix[v]) \in fleet.acted[w]

\* workloads whose specs have different prefixes act on different resources
DistinctPrefixesIsolated ==
    \A v \in Workloads, w \in Workloads :
        v # w /\ fleet.prefix[v] # fleet.prefix[w] =>
            fleet.acted[v] \cap fleet.acted[w] = {}

\* workloads with the same prefix share the five cloud resources whatever their
\* namespaces, and the NodePort service when they are in the same namespace
SharedAsCoded ==
    \A v \in Workloads, w \in Workloads :
        v # w =>
            \A t \in fleet.acted[v] \cap fleet.acted[w] :
                /\ fleet.prefix[v] = fleet.prefix[w]
                /\ t.kind = "nodeport" => fleet.ns[v] = fleet.ns[w]

\* the pods of the workload of a listing: those of its namespace whose labels
\* include its selector, in the order of the cluster
OwnPods(a) ==
    SelectSeq(a.cluster, LAMBDA p : p.ns = a.ns /\ a.selector \subseteq p.labels)

\* the mappings of a list of pods for a spec with the one port a
OwnMappings(ps) == [i \in DOMAIN ps |-> MappingFor(PortA, i - 1, ps[i].node)]

\* C37: the replicas the port mappings and the node lookups are derived from are
\* the pods of the workload's own namespace that match its selector: a pod of
\* another namespace with the same labels adds no mapping and shifts no offset.
C37_OwnNamespaceOnly ==
    Applied("listPods") =>
        /\ ret[1].pods = OwnPods(arg)
        /\ ret[1].mappings = OwnMappings(OwnPods(arg))

\* a pod of another namespace was listed before the replica of the workload, whose
\* mapping got the external port of the second replica
C37_ForeignPodShifts ==
    /\ Applied("listPods")
    /\ Len(OwnPods(arg)) = 1
    /\ Len(ret[1].mappings) = 2
    /\ ret[1].pods[1].ns # arg.ns
    /\ ret[1].mappings[2].Port = PortA.StartingPort + 1

\* the claim holds for a client that reads the namespace of the workload only
ScopedListIsOwn ==
    Applied("listPods") /\ arg.scope = {arg.ns} =>
        /\ ret[1].pods = OwnPods(arg)
        /\ ret[1].mappings = OwnMappings(OwnPods(arg))

\* what the code lists: the pods with the labels in every namespace the client
\* reads
ListAsCoded ==
    Applied("listPods") =>
        /\ \A i \in DOMAIN ret[1].pods :
              ret[1].pods[i].ns \in arg.scope /\ arg.selector \subseteq ret[1].pods[i].labels
        /\ Len(ret[1].pods) =
              Cardinality({i \in DOMAIN arg.cluster :
                             /\ arg.cluster[i].ns \in arg.scope
                             /\ arg.selector \subseteq arg.cluster[i].labels})
        /\ Len(ret[1].mappings) = Len(ret[1].pods)

\* the remote answered with HTTP 404
IsRemote404(e) == e.api /\ e.code = 404

\* the surfaced error err classifies the remote outcome o: nil for a success, the
\* sentinel for a 404, an error that is not the sentinel for every other failure
Classifies(o, err) ==
    IF o = <<>> THEN err = NoErr
    ELSE /\ err # NoErr
         /\ ErrorsIs(err, ErrNotFound) <=> IsRemote404(o[1])
         /\ IsRemote404(o[1]) => err = ErrNotFound

\* C38: get and the mutating calls classify the outcome of the remote call alike,
\* for the request and for the wait on its operation: an HTTP 404 is surfaced as
\* ErrNotFound, every other failure as an error that errors.Is does not match with
\* ErrNotFound, and a success is surfaced as nil.
C38_ErrorMapping ==
    /\ Applied("get") => Classifies(arg.f, ret[1])
    /\ Applied("call") =>
          Classifies(IF arg.f # <<>> THEN arg.f ELSE arg.wait, ret[1])

\* the request of a mutating call succeeded and the wait on its operation failed
\* with a 404: the call returned ErrNotFound
C38_WaitNotFound ==
    /\ Applied("call")
    /\ arg.f = <<>>
    /\ arg.wait # <<>> /\ IsRemote404(arg.wait[1])
    /\ ret[1] = ErrNotFound

====
